---- MODULE Spec2Model ----
(***************************************************************************)
(* The deployment job pipeline of the X token deployer backend:            *)
(* XListener hands mentions to processDeploymentJob, either through the    *)
(* BullMQ queue and its single worker or, with MOCK_QUEUE, by calling it   *)
(* directly; processDeploymentJob reads and writes the Database (Postgres  *)
(* or, with MOCK_DB, in-memory maps), calls BlockchainDeployer.deploy and  *)
(* posts a reply.  Every await of the handler is one step of the model.    *)
(***************************************************************************)
EXTENDS Integers, Sequences, FiniteSets, TLC

\* ------------------------------------------------------------------ bounds
MaxTweets == 2      \* distinct mention ids the platform delivers
MaxJobs == 2        \* deliveries of a mention to the pipeline (duplicates included)
MaxFaults == 1      \* storage errors (a Postgres query that rejects)
MaxTicks == 2       \* clock advances
MaxCalls == 3       \* direct calls on the Database
MaxRetryFaults == 3 \* storage errors where the retries of a job are followed
MaxNonces == 2      \* challenges issued
MaxPieces == 4      \* pieces a text handed to the parser is put together from
MaxVerifies == 2    \* /verify requests
MaxTxs == 4         \* transactions sent to the contracts
MaxBalance == 10    \* ether held by the orchestrator, in units of 0.0001 ether
BLOCK_TIMESTAMP == 7200  \* block.timestamp of the transactions, in seconds
UINT_BITS == 2      \* width the uint256 of SimpleToken is modelled with
MaxPolls == 4       \* polls started: the initial one and the timer's callbacks
MaxDms == 4         \* direct messages the platform holds
MaxQueueFaults == 1 \* calls of deploymentQueue.add that reject

\* ------------------------------------------------------- program constants
RATE_LIMIT_COOLDOWN_MS == 3600000
ATTEMPTS == 3
NONCE_TTL_MS == 300000
TICKER_MAX == 10
NAME_MAX == 50
MAX_DEPLOY_FEE == 100        \* 0.01 ether, in units of 0.0001 ether
DEPLOY_FEE == 5              \* 0.0005 ether
DEPLOYMENT_COOLDOWN == 3600  \* 1 hours, in seconds

NULL == "null"

TweetIds == 1..MaxTweets
JobIds == 1..MaxJobs

TEST_USER == "123456789"
ORIGINAL_AUTHOR == "987654321"
Users == {TEST_USER, ORIGINAL_AUTHOR}

SEED_WALLET == "0x829bcd939A5cFF23553Edbb31776566E9f557fba"
Addresses == {SEED_WALLET}
\* an address as ethers.Wallet.createRandom() or a wallet app gives it (checksummed)
OTHER_WALLET == "0xAb5801a7D398351b8bE11C439e05C5B3259aeC9B"
LinkAddresses == {SEED_WALLET, OTHER_WALLET}
ReqIds == 1..MaxVerifies
PollIds == 1..MaxPolls
DmIds == 1..MaxDms

\* String.prototype.toLowerCase on the addresses of the model
toLowerCase(a) ==
    IF a = "0x829bcd939A5cFF23553Edbb31776566E9f557fba"
    THEN "0x829bcd939a5cff23553edbb31776566e9f557fba"
    ELSE IF a = "0xAb5801a7D398351b8bE11C439e05C5B3259aeC9B"
    THEN "0xab5801a7d398351b8be11c439e05c5b3259aec9b"
    ELSE a

\* The mentions the platform holds: every mention is written by the test
\* user; odd ids are replies to a tweet of the original author, even ids are
\* direct (non-reply) mentions.
Author(t) == TEST_USER
IsReply(t) == t % 2 = 1
ParentAuthor(t) == ORIGINAL_AUTHOR

VARIABLES
    config,        \* MOCK_QUEUE, MOCK_DB, MOCK_CHAIN: fixed at start-up
    users,         \* users table / mockUsers
    deployments,   \* deployments table / mockDeployments, by deploy_tweet_id
    rate_limits,   \* rate_limits table / mockRateLimits
    jobs,          \* the jobs of the 'deployments' queue and their run of processDeploymentJob
    nJobs,         \* jobs created so far
    now,           \* Date.now() / NOW(), in ms
    ticks,         \* clock advances so far
    faults,        \* storage errors that may still happen
    call,          \* the last call made on the Database by a direct caller
    exec,          \* a call of BlockchainDeployer.deploy made with a signer, and its caller
    nonceStore,    \* the wallet-link router's nonces, by <<twitterId, address>>
    nNonces,       \* nonces generated so far
    verifies,      \* the POST /verify requests and their position
    parsed,        \* the last call of CommandParser.parse: its text and what it returned
    tokenFactory,  \* the TokenFactory contract
    feeHook,       \* the FeeForwarderHook contract
    orchestrator,  \* the DeploymentOrchestrator contract
    simpleToken,   \* a SimpleToken contract
    tx,            \* the last transaction sent to a contract and how it ended
    deployCalls,   \* history: calls of blockchainDeployer.deploy per mention id
    lastAttempt,   \* history: per requester, when and for which mention an attempt was last recorded
    noWallet,      \* history: mention ids for which a run resolved no fee-recipient wallet
    replies,       \* history: reply attempts made per mention id
    trail,         \* history: the statuses each Deployment row has held, in order
    lastSeenTweetId,   \* XListener: id of the mention handled last, 0 while undefined
    lastProcessedDmId, \* XListener: id of the direct message handled last, 0 while undefined
    isOddPoll,     \* the timer's flag: the next callback polls mentions (or direct messages)
    polls,         \* the polls started and the await each one is at
    accessToken,   \* FourMemeService.accessToken of the one fourMemeService
    queueFaults,   \* rejections of deploymentQueue.add that may still happen
    queued,        \* history: mention ids handed to the job queue
    dmDeploys,     \* history: calls of blockchainDeployer.deploy per direct-message id
    generated,     \* history: the custodial wallets generated per identity, in order
    requests,      \* history: the symbol and name of each deploy call of the direct-message path
    payloads       \* history: signer and access token of each getTokenCreatePayload request

vars == <<config, users, deployments, rate_limits, jobs, nJobs, now, ticks, faults, call,
          exec, nonceStore, nNonces, verifies, parsed, tokenFactory, feeHook, orchestrator,
          simpleToken, tx, deployCalls, lastAttempt, noWallet, replies, trail,
          lastSeenTweetId, lastProcessedDmId, isOddPoll, polls, accessToken, queueFaults,
          queued, dmDeploys, generated, requests, payloads>>

tables == <<users, deployments, rate_limits>>
clock == <<now, ticks>>
history == <<deployCalls, lastAttempt, noWallet, replies>>
\* the components called directly, outside processDeploymentJob
linkVars == <<nonceStore, nNonces, verifies>>
direct == <<call, exec, linkVars>>
chainVars == <<tokenFactory, feeHook, orchestrator, simpleToken, tx>>
\* the polling loop of XListener, the launch-API session and their history
marks == <<lastSeenTweetId, lastProcessedDmId>>
dmHistory == <<dmDeploys, generated, requests, payloads>>
listener == <<marks, isOddPoll, polls, accessToken, queueFaults, queued, dmHistory>>
\* everything that is not on the chain
offChain == <<config, parsed, tables, trail, jobs, nJobs, clock, faults, direct, history,
              listener>>

\* what parse returns when it returns null
NoCommand == [isNull |-> TRUE, ticker |-> <<>>, name |-> <<>>]
NoParse == [called |-> FALSE, text |-> <<>>, result |-> NoCommand]

\* Accounts: address(0), two externally-owned accounts and the contracts.
ZERO == "0x0"
DEPLOYER == "deployer"
NON_OWNER == "nonOwner"
EOAs == {DEPLOYER, NON_OWNER}
TOKEN_FACTORY == "tokenFactory"
FEE_HOOK == "feeHook"
ORCHESTRATOR == "orchestrator"
SIMPLE_TOKEN == "simpleToken"
\* the accounts that hold tokens
Holders == {ZERO, DEPLOYER, NON_OWNER}

\* uint256, modelled with UINT_BITS bits
UINT_MAX == 2 ^ UINT_BITS - 1
Uint == 0..UINT_MAX

\* a poll that has not been started
NoPoll == [kind |-> "none", pc |-> "idle", timer |-> FALSE, seen |-> 0, batch |-> <<>>, i |-> 0,
           wallet |-> NULL, signer |-> NULL]

\* no transaction sent yet
NoTx == [n |-> 0, to |-> NULL, fn |-> NULL, sender |-> NULL, value |-> 0, amount |-> 0,
         account |-> NULL, from |-> NULL, flag |-> FALSE, revert |-> NULL]

\* the contracts before their construction
NoTokenFactory == [owner |-> ZERO]
NoFeeHook == [owner |-> ZERO, feeRecipients |-> {}]
NoOrchestrator ==
    [constructed |-> FALSE, owner |-> ZERO, deployFee |-> 0, paused |-> FALSE,
     deploymentCooldown |-> DEPLOYMENT_COOLDOWN,
     lastDeployTime |-> [h \in {"keccak256(twitter_user_123)"} |-> 0], balance |-> 0]
NoToken ==
    [constructed |-> FALSE, totalSupply |-> 0, balanceOf |-> [a \in Holders |-> 0],
     allowance |-> [o \in Holders |-> [sp \in Holders |-> 0]]]

NoResult ==
    [success |-> FALSE, tokenAddress |-> NULL, poolId |-> NULL, txHash |-> NULL, error |-> NULL]

NoEffects == [created |-> 0, updated |-> 0, recorded |-> 0, deployed |-> 0, replied |-> 0]

NoJob == [state |-> "none", tweet |-> 0, author |-> NULL, parent |-> NULL,
          attemptsMade |-> 0, pc |-> "idle", feeRecipientWallet |-> NULL,
          result |-> NoResult, error |-> NULL, ret |-> NULL, eff |-> NoEffects,
          replyId |-> NULL, deliveries |-> 0, rowSeen |-> FALSE]

NoExec == [pc |-> "idle", tweet |-> 0, signer |-> NULL, submitted |-> NULL,
           result |-> NoResult, n |-> 0, steps |-> <<>>]

\* the optional data of updateDeploymentStatus, nothing supplied
NoData == [tokenAddress |-> NULL, poolId |-> NULL, txHash |-> NULL, errorMessage |-> NULL]

NoCall == [n |-> 0, op |-> NULL, id |-> 0, user |-> NULL, cooldownMs |-> 0, at |-> 0,
           threw |-> NULL, result |-> FALSE, address |-> NULL, key |-> NULL,
           status |-> NULL, data |-> NoData]

NoVerify == [pc |-> "none", twitterId |-> NULL, address |-> NULL, nonce |-> 0,
             signed |-> FALSE, status |-> 0]

\* ---------------------------------------------------------------- Database

\* new Database(): seedMockData under MOCK_DB, empty tables of schema.sql otherwise
\* A table (or mock Map) is a function from the keys it holds to its rows.
EmptyTable == [k \in {} |-> NULL]

seedMockData ==
    ORIGINAL_AUTHOR :> [wallet_address |-> SEED_WALLET, private_key_encrypted |-> NULL]

getWalletByTwitterId(twitterId) ==
    IF twitterId \in DOMAIN users THEN users[twitterId].wallet_address ELSE NULL

upsertUser(twitterId, walletAddress, encryptedKey) ==
    (twitterId :> [wallet_address |-> toLowerCase(walletAddress),
                   private_key_encrypted |-> encryptedKey]) @@ users

deploymentExists(deployTweetId) == deployTweetId \in DOMAIN deployments

NewDeployment(params) ==
    [deployer_twitter_id |-> params.deployerTwitterId,
     fee_recipient_twitter_id |-> params.feeRecipientTwitterId,
     fee_recipient_wallet |-> params.feeRecipientWallet,
     token_address |-> NULL, pool_id |-> NULL, tx_hash |-> NULL,
     status |-> "pending", error_message |-> NULL]

\* INSERT INTO deployments: the unique_deploy_tweet constraint rejects a second
\* row; mockDeployments.set replaces the entry.
MutNoUniqueConstraint(deployTweetId) == FALSE

createDeploymentRejects(deployTweetId) ==
    ~config.MOCK_DB /\ deployTweetId \in DOMAIN deployments

createDeployment(params) ==
    (params.deployTweetId :> NewDeployment(params)) @@ deployments

\* if (data?.field): a field that is undefined or the empty string is not written
Supplied(v, old) == IF v # NULL /\ v # "" THEN v ELSE old

\* an UPDATE that inserts the row when it is missing
MutUpdateInsertsMissingRow(deployTweetId, status, data) ==
    (deployTweetId :>
        [deployer_twitter_id |-> NULL, fee_recipient_twitter_id |-> NULL,
         fee_recipient_wallet |-> NULL,
         token_address |-> data.tokenAddress, pool_id |-> data.poolId,
         tx_hash |-> data.txHash, status |-> status, error_message |-> data.errorMessage])
    @@ deployments

updateDeploymentStatus(deployTweetId, status, data) ==
    IF deployTweetId \notin DOMAIN deployments THEN deployments
    ELSE LET row == deployments[deployTweetId] IN
         [deployments EXCEPT ![deployTweetId] =
            [row EXCEPT
                !.status = status,
                !.token_address = Supplied(data.tokenAddress, row.token_address),
                !.pool_id = Supplied(data.poolId, row.pool_id),
                !.tx_hash = Supplied(data.txHash, row.tx_hash),
                !.error_message =
                    IF config.MOCK_DB THEN row.error_message
                    ELSE Supplied(data.errorMessage, row.error_message)]]

MutCheckRateLimitStrict(twitterId, cooldownMs) ==
    IF twitterId \notin DOMAIN rate_limits THEN TRUE
    ELSE now - rate_limits[twitterId].last_deploy_at > cooldownMs

checkRateLimit(twitterId, cooldownMs) ==
    IF twitterId \notin DOMAIN rate_limits THEN TRUE
    ELSE now - rate_limits[twitterId].last_deploy_at >= cooldownMs

\* mockRateLimits holds the date only: its counter stays 0 in the model
recordDeployAttempt(twitterId) ==
    (twitterId :>
        IF config.MOCK_DB
        THEN [last_deploy_at |-> now, deploy_count_24h |-> 0]
        ELSE IF twitterId \notin DOMAIN rate_limits
             THEN [last_deploy_at |-> now, deploy_count_24h |-> 1]
             ELSE [last_deploy_at |-> now,
                   deploy_count_24h |-> rate_limits[twitterId].deploy_count_24h + 1])
    @@ rate_limits

\* ------------------------------------------------------- BlockchainDeployer

MockResult ==
    [success |-> TRUE, tokenAddress |-> "0xMockTokenAddress",
     poolId |-> "0xMockPoolId", txHash |-> "0xMockTxHash", error |-> NULL]

Failure(msg) ==
    [success |-> FALSE, tokenAddress |-> NULL, poolId |-> NULL, txHash |-> NULL, error |-> msg]

\* What deploy(params, signer) can return.  processDeploymentJob passes no
\* signer: outside MOCK_CHAIN reading signer.address throws inside the try and
\* the catch turns it into a failure result.
deploy(signer) ==
    IF config.MOCK_CHAIN THEN {MockResult}
    ELSE IF signer = NULL THEN {Failure("TypeError")}
    ELSE {[success |-> TRUE, tokenAddress |-> "0xPENDING_LOG_PARSE", poolId |-> "0x0",
           txHash |-> "0xTxHash", error |-> NULL],
          Failure("login"), Failure("payload"), Failure("createToken"), Failure("wait")}

\* --------------------------------------------------------------------- Init

\* the state after start-up, with a budget of storage errors
Start(budget) ==
    /\ config \in [MOCK_QUEUE : BOOLEAN, MOCK_DB : BOOLEAN, MOCK_CHAIN : BOOLEAN]
    /\ users = IF config.MOCK_DB THEN seedMockData ELSE EmptyTable
    /\ deployments = EmptyTable
    /\ rate_limits = EmptyTable
    /\ jobs = [j \in JobIds |-> NoJob]
    /\ nJobs = 0
    /\ now = 0
    /\ ticks = 0
    /\ faults = budget
    /\ call = NoCall
    /\ exec = NoExec
    /\ nonceStore = EmptyTable
    /\ nNonces = 0
    /\ verifies = [r \in ReqIds |-> NoVerify]
    /\ parsed = NoParse
    /\ tokenFactory = NoTokenFactory
    /\ feeHook = NoFeeHook
    /\ orchestrator = NoOrchestrator
    /\ simpleToken = NoToken
    /\ tx = NoTx
    /\ deployCalls = [t \in TweetIds |-> 0]
    /\ lastAttempt = EmptyTable
    /\ noWallet = {}
    /\ replies = [t \in TweetIds |-> 0]
    /\ trail = EmptyTable
    /\ lastSeenTweetId = 0
    /\ lastProcessedDmId = 0
    /\ isOddPoll = TRUE
    /\ polls = [p \in PollIds |-> NoPoll]
    /\ accessToken = NULL
    /\ queueFaults = MaxQueueFaults
    /\ queued = {}
    /\ dmDeploys = [d \in DmIds |-> 0]
    /\ generated = [u \in Users |-> <<>>]
    /\ requests = {}
    /\ payloads = {}

Init == Start(MaxFaults)

\* ------------------------------------------------------------------ helpers

\* the trail of the rows of a table that follows `deployments`: a row inserted
\* (or, in mockDeployments, put in place of another) starts a trail, a changed
\* status is added to the trail of its row
Inserted(new, t) == (t :> <<new[t].status>>) @@ trail
Changed(new) ==
    [t \in DOMAIN new |->
        IF t \notin DOMAIN trail THEN <<new[t].status>>
        ELSE IF new[t].status = trail[t][Len(trail[t])] THEN trail[t]
        ELSE Append(trail[t], new[t].status)]

\* processDeploymentJob returns ret: the worker marks the job completed
Returns(job, ret) == [job EXCEPT !.state = "completed", !.pc = "idle", !.ret = ret]

\* a queue that retries once more than `attempts` says
MutOneMoreAttempt(job) ==
    IF config.MOCK_QUEUE
    THEN [job EXCEPT !.state = "failed", !.pc = "idle", !.ret = "threw"]
    ELSE [job EXCEPT
            !.attemptsMade = @ + 1,
            !.state = IF job.attemptsMade + 1 <= ATTEMPTS THEN "waiting" ELSE "failed",
            !.pc = "idle", !.ret = "threw"]

\* processDeploymentJob throws.  The BullMQ worker retries the job until
\* `attempts` deliveries were made and then keeps it in the failed set; the
\* direct callers of MOCK_QUEUE log the error.
Throws(job) ==
    IF config.MOCK_QUEUE
    THEN [job EXCEPT !.state = "failed", !.pc = "idle", !.ret = "threw"]
    ELSE [job EXCEPT
            !.attemptsMade = @ + 1,
            !.state = IF job.attemptsMade + 1 < ATTEMPTS THEN "waiting" ELSE "failed",
            !.pc = "idle", !.ret = "threw"]

Goto(j, pc) == [jobs[j] EXCEPT !.pc = pc]
Count(job, what) == [job EXCEPT !.eff[what] = @ + 1]

DeploymentParams(job, wallet) ==
    [deployTweetId |-> job.tweet, deployerTwitterId |-> job.author,
     feeRecipientTwitterId |-> job.parent, feeRecipientWallet |-> wallet]

\* The awaits of processDeploymentJob on the Database
DbCalls == {"exists", "resolve", "wm_create", "wm_update", "rate", "create",
            "processing", "record", "fail_update", "ok_update", "catch"}

\* Under MOCK_DB the Database methods touch no I/O: the awaited promise is
\* already settled and the run goes on within the same drain of the microtask
\* queue, before any timer or network callback runs.  Without MOCK_CHAIN the
\* same holds for deploy, which fails before its first request.
InMicrotasks(k) ==
    /\ config.MOCK_DB
    /\ jobs[k].state = "active"
    /\ \/ jobs[k].pc \in DbCalls
       \/ jobs[k].pc = "deploying" /\ ~config.MOCK_CHAIN

\* A timer, network or queue callback runs when no microtask is pending
CallbackMayRun == \A k \in JobIds : ~InMicrotasks(k)

At(j, pc) ==
    /\ jobs[j].state = "active"
    /\ jobs[j].pc = pc
    /\ \A k \in JobIds \ {j} : ~InMicrotasks(k)

\* --------------------------------------------------------------- XListener

\* The job data { mention, command, parentTweet } goes to the queue, or with
\* MOCK_QUEUE straight into a run of processDeploymentJob.
Enqueue(t, parent) ==
    /\ nJobs < MaxJobs
    /\ CallbackMayRun
    /\ nJobs' = nJobs + 1
    /\ jobs' = [jobs EXCEPT ![nJobs + 1] =
                  [NoJob EXCEPT
                      !.tweet = t, !.author = Author(t), !.parent = parent,
                      !.state = IF config.MOCK_QUEUE THEN "active" ELSE "waiting",
                      !.pc = IF config.MOCK_QUEUE THEN "exists" ELSE "idle"]]
    /\ UNCHANGED <<config, parsed, chainVars, listener, tables, trail, clock, faults, direct, history>>

\* Filtered stream: a non-reply mention or an unresolved parent is skipped;
\* processDeploymentJob is not awaited.
handleTweet(t, parentOk) ==
    IF IsReply(t) /\ parentOk
    THEN Enqueue(t, ParentAuthor(t))
    ELSE UNCHANGED vars

\* twitterapi.io polling: a direct mention, or a reply whose parent cannot be
\* resolved, names the author itself as fee recipient.
handleTwitterApiIoTweet(t, parentOk) ==
    Enqueue(t, IF IsReply(t) /\ parentOk THEN ParentAuthor(t) ELSE Author(t))

\* ------------------------------------------------------------------ worker

\* new Worker('deployments', ..., { concurrency: 1 }): the next waiting (or
\* delayed, after its backoff) job is taken when no job is active.
deploymentWorker(j) ==
    /\ ~config.MOCK_QUEUE
    /\ jobs[j].state = "waiting"
    /\ \A k \in JobIds : jobs[k].state # "active"
    /\ jobs' = [jobs EXCEPT ![j] =
                  [@ EXCEPT !.state = "active", !.pc = "exists",
                            !.feeRecipientWallet = NULL, !.result = NoResult,
                            !.error = NULL, !.ret = NULL, !.eff = NoEffects,
                            !.replyId = NULL, !.deliveries = @ + 1, !.rowSeen = FALSE]]
    /\ UNCHANGED <<config, parsed, chainVars, listener, tables, trail, nJobs, clock, faults, direct, history>>

\* ---------------------------------------------------- processDeploymentJob

\* 1. if (await db.deploymentExists(mention.tweet_id)) return skipped
\* (rowSeen, history: the row was there when the run made this query)
CheckExists(j) ==
    /\ At(j, "exists")
    /\ jobs' = [jobs EXCEPT ![j] =
                  IF deploymentExists(jobs[j].tweet)
                  THEN [Returns(jobs[j], "skipped") EXCEPT !.rowSeen = TRUE]
                  ELSE Goto(j, "resolve")]
    /\ UNCHANGED <<config, parsed, chainVars, listener, tables, trail, nJobs, clock, faults, direct, history>>

\* 2. feeRecipientWallet = await walletResolver.resolve(parentTweet.author_id)
ResolveWallet(j) ==
    /\ At(j, "resolve")
    /\ LET w == getWalletByTwitterId(jobs[j].parent) IN
       /\ jobs' = [jobs EXCEPT ![j] =
                     [@ EXCEPT !.feeRecipientWallet = w,
                               !.pc = IF w = NULL THEN "wm_create" ELSE "rate"]]
       /\ noWallet' = IF w = NULL THEN noWallet \cup {jobs[j].tweet} ELSE noWallet
    /\ UNCHANGED <<config, parsed, chainVars, listener, tables, trail, nJobs, clock, faults, direct, deployCalls, lastAttempt, replies>>

\* await db.createDeployment(...): the insert, or the duplicate-key error
Create(j, wallet, next) ==
    IF createDeploymentRejects(jobs[j].tweet)
    THEN /\ jobs' = [jobs EXCEPT ![j] = [@ EXCEPT !.pc = "catch", !.error = "duplicate key"]]
         /\ UNCHANGED <<deployments, trail>>
    ELSE /\ deployments' = createDeployment(DeploymentParams(jobs[j], wallet))
         /\ trail' = Inserted(deployments', jobs[j].tweet)
         /\ jobs' = [jobs EXCEPT ![j] = Count(Goto(j, next), "created")]

\* await db.updateDeploymentStatus(mention.tweet_id, status, data)
Update(j, status, data, nextJob) ==
    /\ deployments' = updateDeploymentStatus(jobs[j].tweet, status, data)
    /\ trail' = Changed(deployments')
    /\ jobs' = [jobs EXCEPT ![j] = Count(nextJob, "updated")]

\* What a post of the ReplyPublisher returns: the id of the posted tweet, or
\* null when the client is missing, the platform call fails or it throws
postReply == {"tweet id", NULL}

\* await replyPublisher.post...(...), whose result is not looked at; return { status: ret }
Reply(j, ret) ==
    /\ \E id \in postReply :
          jobs' = [jobs EXCEPT ![j] =
                     [Count(Returns(jobs[j], ret), "replied") EXCEPT !.replyId = id]]
    /\ replies' = [replies EXCEPT ![jobs[j].tweet] = @ + 1]

WalletMissingCreate(j) ==
    /\ At(j, "wm_create")
    /\ Create(j, "", "wm_update")
    /\ UNCHANGED <<config, parsed, chainVars, listener, users, rate_limits, nJobs, clock, faults, direct, history>>

WalletMissingUpdate(j) ==
    /\ At(j, "wm_update")
    /\ Update(j, "wallet_missing", NoData, Goto(j, "wm_reply"))
    /\ UNCHANGED <<config, parsed, chainVars, listener, users, rate_limits, nJobs, clock, faults, direct, history>>

\* postWalletRequired never throws: a failed send returns null
WalletMissingReply(j) ==
    /\ At(j, "wm_reply")
    /\ Reply(j, "wallet_missing")
    /\ UNCHANGED <<config, parsed, chainVars, listener, tables, trail, nJobs, clock, faults, direct, deployCalls, lastAttempt, noWallet>>

\* the gate keyed by the fee recipient instead of the requester
MutCheckRateOfParent(j) ==
    /\ At(j, "rate")
    /\ jobs' = [jobs EXCEPT ![j] =
                  IF checkRateLimit(jobs[j].parent, RATE_LIMIT_COOLDOWN_MS)
                  THEN Goto(j, "create")
                  ELSE Goto(j, "rl_reply")]
    /\ UNCHANGED <<config, parsed, chainVars, listener, tables, trail, nJobs, clock, faults, direct, history>>

\* 3. canDeploy = await db.checkRateLimit(mention.author_id, RATE_LIMIT_COOLDOWN_MS)
CheckRate(j) ==
    /\ At(j, "rate")
    /\ jobs' = [jobs EXCEPT ![j] =
                  IF checkRateLimit(jobs[j].author, RATE_LIMIT_COOLDOWN_MS)
                  THEN Goto(j, "create")
                  ELSE Goto(j, "rl_reply")]
    /\ UNCHANGED <<config, parsed, chainVars, listener, tables, trail, nJobs, clock, faults, direct, history>>

\* the rate-limited outcome persisted as a failed Deployment
MutRateLimitedPersisted(j) ==
    /\ At(j, "rl_reply")
    /\ Update(j, "failed", NoData, Count(Returns(jobs[j], "rate_limited"), "replied"))
    /\ UNCHANGED <<config, parsed, chainVars, listener, users, rate_limits, nJobs, clock, faults, direct, history>>

\* postFailure('Rate limited...'), return rate_limited
RateLimitedReply(j) ==
    /\ At(j, "rl_reply")
    /\ Reply(j, "rate_limited")
    /\ UNCHANGED <<config, parsed, chainVars, listener, tables, trail, nJobs, clock, faults, direct, deployCalls, lastAttempt, noWallet>>

\* 4. createDeployment, status processing, recordDeployAttempt
CreateRecord(j) ==
    /\ At(j, "create")
    /\ Create(j, jobs[j].feeRecipientWallet, "processing")
    /\ UNCHANGED <<config, parsed, chainVars, listener, users, rate_limits, nJobs, clock, faults, direct, history>>

\* a run that goes on to recordDeployAttempt without the update to processing
MutMarkProcessingSkipped(j) ==
    /\ At(j, "processing")
    /\ jobs' = [jobs EXCEPT ![j] = Goto(j, "record")]
    /\ UNCHANGED <<config, parsed, chainVars, listener, tables, trail, nJobs, clock, faults, direct, history>>

\* await db.updateDeploymentStatus(mention.tweet_id, 'processing')
MarkProcessing(j) ==
    /\ At(j, "processing")
    /\ Update(j, "processing", NoData, Goto(j, "record"))
    /\ UNCHANGED <<config, parsed, chainVars, listener, users, rate_limits, nJobs, clock, faults, direct, history>>

\* 5. recordDeployAttempt returned: blockchainDeployer.deploy({ name, symbol,
\* feeRecipient, deployerTwitterId }) is called
RecordAttempt(j) ==
    /\ At(j, "record")
    /\ rate_limits' = recordDeployAttempt(jobs[j].author)
    /\ lastAttempt' = (jobs[j].author :> [at |-> now, tweet |-> jobs[j].tweet]) @@ lastAttempt
    /\ deployCalls' = [deployCalls EXCEPT ![jobs[j].tweet] = @ + 1]
    /\ jobs' = [jobs EXCEPT ![j] = Count(Count(Goto(j, "deploying"), "recorded"), "deployed")]
    /\ UNCHANGED <<config, parsed, chainVars, listener, users, deployments, trail, nJobs, clock, faults, direct, noWallet, replies>>

DeployReturns(j) ==
    /\ At(j, "deploying")
    /\ \E r \in deploy(NULL) :
          jobs' = [jobs EXCEPT ![j] =
                     [@ EXCEPT !.result = r,
                               !.pc = IF r.success THEN "ok_update" ELSE "fail_update"]]
    /\ UNCHANGED <<config, parsed, chainVars, listener, tables, trail, nJobs, clock, faults, direct, history>>

FailUpdate(j) ==
    /\ At(j, "fail_update")
    /\ Update(j, "failed",
              [NoData EXCEPT !.txHash = jobs[j].result.txHash,
                             !.errorMessage = jobs[j].result.error],
              Goto(j, "fail_reply"))
    /\ UNCHANGED <<config, parsed, chainVars, listener, users, rate_limits, nJobs, clock, faults, direct, history>>

FailReply(j) ==
    /\ At(j, "fail_reply")
    /\ Reply(j, "failed")
    /\ UNCHANGED <<config, parsed, chainVars, listener, tables, trail, nJobs, clock, faults, direct, deployCalls, lastAttempt, noWallet>>

\* 6. status deployed with the result's addresses, 7. postSuccess
SuccessUpdate(j) ==
    /\ At(j, "ok_update")
    /\ Update(j, "deployed",
              [NoData EXCEPT !.tokenAddress = jobs[j].result.tokenAddress,
                             !.poolId = jobs[j].result.poolId,
                             !.txHash = jobs[j].result.txHash],
              Goto(j, "ok_reply"))
    /\ UNCHANGED <<config, parsed, chainVars, listener, users, rate_limits, nJobs, clock, faults, direct, history>>

\* a failed post that throws into the catch block
MutReplyFailureThrows(j) ==
    /\ At(j, "ok_reply")
    /\ \E id \in postReply :
          jobs' = [jobs EXCEPT ![j] =
                     IF id = NULL
                     THEN [Count(jobs[j], "replied") EXCEPT !.pc = "catch", !.error = "reply failed"]
                     ELSE [Count(Returns(jobs[j], "deployed"), "replied") EXCEPT !.replyId = id]]
    /\ replies' = [replies EXCEPT ![jobs[j].tweet] = @ + 1]
    /\ UNCHANGED <<config, parsed, chainVars, listener, tables, trail, nJobs, clock, faults, direct, deployCalls, lastAttempt, noWallet>>

SuccessReply(j) ==
    /\ At(j, "ok_reply")
    /\ Reply(j, "deployed")
    /\ UNCHANGED <<config, parsed, chainVars, listener, tables, trail, nJobs, clock, faults, direct, deployCalls, lastAttempt, noWallet>>

\* A query of the Postgres pool rejects (connection timeout, server error):
\* the awaited call throws into the catch block.  The mock maps never throw.
StorageError(j) ==
    /\ ~config.MOCK_DB
    /\ jobs[j].state = "active"
    /\ jobs[j].pc \in DbCalls \ {"catch"}
    /\ faults > 0
    /\ faults' = faults - 1
    /\ jobs' = [jobs EXCEPT ![j] =
                  [@ EXCEPT !.pc = "catch", !.error = "storage error",
                            !.rowSeen = jobs[j].pc = "exists" /\ deploymentExists(jobs[j].tweet)]]
    /\ UNCHANGED <<config, parsed, chainVars, listener, tables, trail, nJobs, clock, direct, history>>

\* catch (error): updateDeploymentStatus(tweet_id, 'failed', { errorMessage }),
\* whose own failure is only logged; then throw error
CatchError(j) ==
    /\ At(j, "catch")
    /\ \/ /\ Update(j, "failed", [NoData EXCEPT !.errorMessage = jobs[j].error],
                    Throws(jobs[j]))
          /\ UNCHANGED faults
       \/ /\ ~config.MOCK_DB
          /\ faults > 0
          /\ faults' = faults - 1
          /\ jobs' = [jobs EXCEPT ![j] = Throws(jobs[j])]
          /\ UNCHANGED <<deployments, trail>>
    /\ UNCHANGED <<config, parsed, chainVars, listener, users, rate_limits, nJobs, clock, direct, history>>

processDeploymentJob(j) ==
    \/ CheckExists(j)
    \/ ResolveWallet(j)
    \/ WalletMissingCreate(j)
    \/ WalletMissingUpdate(j)
    \/ WalletMissingReply(j)
    \/ CheckRate(j)
    \/ RateLimitedReply(j)
    \/ CreateRecord(j)
    \/ MarkProcessing(j)
    \/ RecordAttempt(j)
    \/ DeployReturns(j)
    \/ FailUpdate(j)
    \/ FailReply(j)
    \/ SuccessUpdate(j)
    \/ SuccessReply(j)
    \/ StorageError(j)
    \/ CatchError(j)

\* ------------------------------------------------------------- environment

\* walletResolver.link(twitterId, walletAddress), from the wallet-link API
link(twitterId, walletAddress) ==
    /\ CallbackMayRun
    /\ users' = upsertUser(twitterId, walletAddress, NULL)
    /\ UNCHANGED <<config, parsed, chainVars, listener, deployments, trail, rate_limits, jobs, nJobs, clock, faults, direct, history>>

\* Time passes: one millisecond, or one millisecond less than the cooldown
Tick(d) ==
    /\ ticks < MaxTicks
    /\ ticks' = ticks + 1
    /\ now' = now + d
    /\ UNCHANGED <<config, parsed, chainVars, listener, tables, trail, jobs, nJobs, faults, direct, history>>

Next ==
    \/ \E t \in TweetIds, parentOk \in BOOLEAN : handleTweet(t, parentOk)
    \/ \E t \in TweetIds, parentOk \in BOOLEAN : handleTwitterApiIoTweet(t, parentOk)
    \/ \E j \in JobIds : deploymentWorker(j)
    \/ \E j \in JobIds : processDeploymentJob(j)
    \/ \E u \in Users, a \in Addresses : link(u, a)
    \/ \E d \in {1, RATE_LIMIT_COOLDOWN_MS - 1} : Tick(d)

Spec == Init /\ [][Next]_vars

\* ------------------------------------------------- the Database, called directly

\* The methods of the Database class called one at a time by a direct caller
\* (the wallet-link routes, the listener, a test), with the last call and its
\* outcome kept in `call`.
Statuses == {"pending", "processing", "deployed", "failed", "wallet_missing"}
Cooldowns == {1, RATE_LIMIT_COOLDOWN_MS}
DataInputs ==
    {NoData,
     [NoData EXCEPT !.txHash = "0xTxHash", !.errorMessage = "wait"],
     [NoData EXCEPT !.txHash = ""],
     [NoData EXCEPT !.tokenAddress = "0xMockTokenAddress", !.poolId = "0xMockPoolId",
                    !.txHash = "0xMockTxHash"]}

Called(op, id, user) ==
    [NoCall EXCEPT !.n = call.n + 1, !.op = op, !.id = id, !.user = user, !.at = now]

DbCreateDeployment(t, parent, wallet) ==
    /\ call.n < MaxCalls
    /\ IF createDeploymentRejects(t)
       THEN /\ call' = [Called("createDeployment", t, NULL) EXCEPT !.threw = "duplicate key"]
            /\ UNCHANGED <<deployments, trail>>
       ELSE /\ deployments' = createDeployment(
                   [deployTweetId |-> t, deployerTwitterId |-> Author(t),
                    feeRecipientTwitterId |-> parent, feeRecipientWallet |-> wallet])
            /\ trail' = Inserted(deployments', t)
            /\ call' = Called("createDeployment", t, NULL)
    /\ UNCHANGED <<config, parsed, chainVars, listener, users, rate_limits, jobs, nJobs, clock, faults, exec, linkVars, history>>

DbUpdateDeploymentStatus(t, status, data) ==
    /\ call.n < MaxCalls
    /\ deployments' = updateDeploymentStatus(t, status, data)
    /\ trail' = Changed(deployments')
    /\ call' = [Called("updateDeploymentStatus", t, NULL) EXCEPT
                   !.status = status, !.data = data]
    /\ UNCHANGED <<config, parsed, chainVars, listener, users, rate_limits, jobs, nJobs, clock, faults, exec, linkVars, history>>

DbCheckRateLimit(u, cooldownMs) ==
    /\ call.n < MaxCalls
    /\ call' = [Called("checkRateLimit", 0, u) EXCEPT
                   !.cooldownMs = cooldownMs, !.result = checkRateLimit(u, cooldownMs)]
    /\ UNCHANGED <<config, parsed, chainVars, listener, tables, trail, jobs, nJobs, clock, faults, exec, linkVars, history>>

DbRecordDeployAttempt(u) ==
    /\ call.n < MaxCalls
    /\ rate_limits' = recordDeployAttempt(u)
    /\ lastAttempt' = (u :> [at |-> now, tweet |-> 0]) @@ lastAttempt
    /\ call' = Called("recordDeployAttempt", 0, u)
    /\ UNCHANGED <<config, parsed, chainVars, listener, users, deployments, trail, jobs, nJobs, clock, faults, exec, linkVars, deployCalls, noWallet, replies>>

InitDb == Init /\ ~config.MOCK_QUEUE /\ ~config.MOCK_CHAIN

NextDb ==
    \/ \E t \in TweetIds, parent \in Users, wallet \in {"", toLowerCase(SEED_WALLET)} :
          DbCreateDeployment(t, parent, wallet)
    \/ \E t \in TweetIds, status \in Statuses, data \in DataInputs :
          DbUpdateDeploymentStatus(t, status, data)
    \/ \E u \in Users, cooldownMs \in Cooldowns : DbCheckRateLimit(u, cooldownMs)
    \/ \E u \in Users : DbRecordDeployAttempt(u)
    \/ \E d \in {1, RATE_LIMIT_COOLDOWN_MS - 1} : Tick(d)

SpecDb == InitDb /\ [][NextDb]_vars

\* --------------------------------------------------- the queue and its retries

\* The pipeline behind the BullMQ queue and Postgres, with storage errors
\* enough for one job to throw on every delivery.
InitRetry == Start(MaxRetryFaults) /\ ~config.MOCK_QUEUE /\ ~config.MOCK_DB

\* the steps of Next but for the clock, which the retries do not read
NextRetry ==
    \/ \E t \in TweetIds, parentOk \in BOOLEAN : handleTweet(t, parentOk)
    \/ \E t \in TweetIds, parentOk \in BOOLEAN : handleTwitterApiIoTweet(t, parentOk)
    \/ \E j \in JobIds : deploymentWorker(j)
    \/ \E j \in JobIds : processDeploymentJob(j)
    \/ \E u \in Users, a \in Addresses : link(u, a)

SpecRetry == InitRetry /\ [][NextRetry]_vars

\* Fair scheduling: the worker takes a waiting job when it is idle, and a run
\* that can go on does go on.  Deliveries and storage errors are up to the
\* environment.
FairRetry ==
    /\ SpecRetry
    /\ WF_vars(\E j \in JobIds : deploymentWorker(j))
    /\ WF_vars(\E j \in JobIds : processDeploymentJob(j))

\* ------------------------------------- BlockchainDeployer, called with a signer

\* deploy(params, signer) step by step, for a caller that created the Deployment
\* and set it to 'processing' as steps 4 of processDeploymentJob do, and that
\* stores the result as steps 5 and 6 do.
Signers == {NULL, "signer"}

ExecThrows(msg) == [exec EXCEPT !.pc = "returned", !.result = Failure(msg)]

\* await blockchainDeployer.deploy(params, signer) is called; under MOCK_CHAIN it
\* returns the mock result; reading signer.address of no signer throws
ExecCall(t, signer) ==
    /\ exec.pc \in {"idle", "stored"}
    /\ t \notin DOMAIN deployments
    /\ deployments' =
          (t :> [NewDeployment([deployTweetId |-> t, deployerTwitterId |-> Author(t),
                                feeRecipientTwitterId |-> ParentAuthor(t),
                                feeRecipientWallet |-> toLowerCase(SEED_WALLET)])
                 EXCEPT !.status = "processing"]) @@ deployments
    /\ trail' = (t :> <<"pending", "processing">>) @@ trail
    /\ exec' = LET e == [NoExec EXCEPT !.tweet = t, !.signer = signer, !.n = exec.n + 1] IN
               IF config.MOCK_CHAIN THEN [e EXCEPT !.pc = "returned", !.result = MockResult]
               ELSE IF signer = NULL THEN [e EXCEPT !.pc = "returned", !.result = Failure("TypeError")]
               ELSE [e EXCEPT !.pc = "login"]
    /\ UNCHANGED <<config, parsed, chainVars, listener, users, rate_limits, jobs, nJobs, clock, faults, call, linkVars, history>>

\* Done(step, next): the awaited step resolved (steps, history: the awaits of
\* this run that resolved, in order) and the run goes on to the next one
Done(step, next) == [exec EXCEPT !.pc = next, !.steps = Append(@, step)]

\* a login whose failure is not noticed: the run goes on to the payload
MutLoginFailureIgnored ==
    /\ exec.pc = "login"
    /\ exec' \in {Done("login", "payload"), [exec EXCEPT !.pc = "payload"]}
    /\ UNCHANGED <<config, parsed, chainVars, listener, tables, trail, jobs, nJobs, clock, faults, call, linkVars, history>>

\* 1. await fourMemeService.login(signer)
ExecLogin ==
    /\ exec.pc = "login"
    /\ exec' \in {Done("login", "payload"), ExecThrows("login")}
    /\ UNCHANGED <<config, parsed, chainVars, listener, tables, trail, jobs, nJobs, clock, faults, call, linkVars, history>>

\* 2. await fourMemeService.getTokenCreatePayload(...)
ExecPayload ==
    /\ exec.pc = "payload"
    /\ exec' \in {Done("payload", "createToken"), ExecThrows("payload")}
    /\ UNCHANGED <<config, parsed, chainVars, listener, tables, trail, jobs, nJobs, clock, faults, call, linkVars, history>>

\* 3. tx = await contract.createToken(...): the transaction is submitted, tx.hash is known
ExecCreateToken ==
    /\ exec.pc = "createToken"
    /\ exec' \in {[Done("createToken", "wait") EXCEPT !.submitted = "0xTxHash"],
                  ExecThrows("createToken")}
    /\ UNCHANGED <<config, parsed, chainVars, listener, tables, trail, jobs, nJobs, clock, faults, call, linkVars, history>>

\* 4. await tx.wait(), 5. return { success: true, ..., txHash: tx.hash };
\* catch (error): return { success: false, error: error.message }
ExecWait ==
    /\ exec.pc = "wait"
    /\ exec' \in {[Done("wait", "returned") EXCEPT
                               !.result = [success |-> TRUE, tokenAddress |-> "0xPENDING_LOG_PARSE",
                                           poolId |-> "0x0", txHash |-> exec.submitted,
                                           error |-> NULL]],
                  ExecThrows("wait")}
    /\ UNCHANGED <<config, parsed, chainVars, listener, tables, trail, jobs, nJobs, clock, faults, call, linkVars, history>>

\* the caller stores the result: updateDeploymentStatus(tweet_id, 'failed',
\* { txHash: result.txHash, errorMessage: result.error }) or 'deployed' with
\* the result's addresses
ExecStore ==
    /\ exec.pc = "returned"
    /\ exec.result \in deploy(exec.signer)
    /\ deployments' =
          IF exec.result.success
          THEN updateDeploymentStatus(exec.tweet, "deployed",
                   [NoData EXCEPT !.tokenAddress = exec.result.tokenAddress,
                                  !.poolId = exec.result.poolId,
                                  !.txHash = exec.result.txHash])
          ELSE updateDeploymentStatus(exec.tweet, "failed",
                   [NoData EXCEPT !.txHash = exec.result.txHash,
                                  !.errorMessage = exec.result.error])
    /\ trail' = Changed(deployments')
    /\ exec' = [exec EXCEPT !.pc = "stored"]
    /\ UNCHANGED <<config, parsed, chainVars, listener, users, rate_limits, jobs, nJobs, clock, faults, call, linkVars, history>>

InitDeployer == Init /\ ~config.MOCK_QUEUE

NextDeployer ==
    \/ \E t \in TweetIds, signer \in Signers : ExecCall(t, signer)
    \/ ExecLogin
    \/ ExecPayload
    \/ ExecCreateToken
    \/ ExecWait
    \/ ExecStore

SpecDeployer == InitDeployer /\ [][NextDeployer]_vars

\* ------------------------------------------------------------ wallet linking

\* db.upsertUser(twitterId, walletAddress, encryptedKey) called directly:
\* WalletResolver.link, the manual link script and the DM link command pass no
\* key (null); handleStartCommand passes the encrypted generated key.
DbUpsertUser(u, a, key) ==
    /\ users' = upsertUser(u, a, key)
    /\ call' = [Called("upsertUser", 0, u) EXCEPT !.address = a, !.key = key]

\* DM 'link 0x...': db.upsertUser(dm.sender_id, walletAddress, null)
handleDMLink(u, a) ==
    /\ call.n < MaxCalls
    /\ DbUpsertUser(u, a, NULL)
    /\ UNCHANGED <<config, parsed, chainVars, listener, deployments, trail, rate_limits, jobs, nJobs, clock, faults, exec,
                   linkVars, history>>

\* DM 'start': a sender who has a custodial key is told so; otherwise a wallet
\* is generated and stored with its encrypted key
handleStartCommand(u) ==
    /\ call.n < MaxCalls
    /\ IF u \in DOMAIN users /\ users[u].private_key_encrypted # NULL
       THEN UNCHANGED vars
       ELSE /\ DbUpsertUser(u, OTHER_WALLET, "encrypted key")
            /\ UNCHANGED <<config, parsed, chainVars, listener, deployments, trail, rate_limits, jobs, nJobs, clock, faults, exec,
                           linkVars, history>>

Remove(table, k) == [x \in DOMAIN table \ {k} |-> table[x]]

\* POST /challenge { twitterId, address }: a fresh nonce is stored for the pair
\* with its expiry (issuedAt is kept for the record only)
Challenge(u, a) ==
    /\ nNonces < MaxNonces
    /\ nNonces' = nNonces + 1
    /\ nonceStore' = (<<u, a>> :> [nonce |-> nNonces + 1, expiresAt |-> now + NONCE_TTL_MS,
                                   issuedAt |-> now]) @@ nonceStore
    /\ UNCHANGED <<config, parsed, chainVars, listener, tables, trail, jobs, nJobs, clock, faults, call, exec, verifies, history>>

\* POST /verify { message, signature, twitterId } arrives: the message names
\* address a and nonce n, and the signature is a's or not; siweMessage.verify
\* is awaited
VerifyRequest(r, u, a, n, signed) ==
    /\ verifies[r].pc = "none"
    /\ \A q \in ReqIds : q < r => verifies[q].pc # "none"
    /\ verifies' = [verifies EXCEPT ![r] =
                      [NoVerify EXCEPT !.pc = "siwe", !.twitterId = u, !.address = a,
                                       !.nonce = n, !.signed = signed]]
    /\ UNCHANGED <<config, parsed, chainVars, listener, tables, trail, jobs, nJobs, clock, faults, call, exec, nonceStore,
                   nNonces, history>>

Respond(r, status) == [verifies EXCEPT ![r] = [@ EXCEPT !.pc = "done", !.status = status]]

\* a check that looks for a stored challenge but does not compare its nonce
MutVerifySkipsNonce(r) ==
    LET v == verifies[r]
        k == <<v.twitterId, v.address>> IN
    /\ v.pc = "siwe"
    /\ IF ~v.signed \/ k \notin DOMAIN nonceStore
       THEN /\ verifies' = Respond(r, 401)
            /\ UNCHANGED <<users, nonceStore, call>>
       ELSE IF now > nonceStore[k].expiresAt
       THEN /\ verifies' = Respond(r, 401)
            /\ nonceStore' = Remove(nonceStore, k)
            /\ UNCHANGED <<users, call>>
       ELSE IF config.MOCK_DB
       THEN /\ DbUpsertUser(v.twitterId, v.address, NULL)
            /\ nonceStore' = Remove(nonceStore, k)
            /\ verifies' = Respond(r, 200)
       ELSE /\ verifies' = [verifies EXCEPT ![r] = [@ EXCEPT !.pc = "upsert"]]
            /\ UNCHANGED <<users, nonceStore, call>>
    /\ UNCHANGED <<config, parsed, chainVars, listener, deployments, trail, rate_limits, jobs, nJobs, clock, faults, exec,
                   nNonces, history>>

\* the signature, the stored nonce and the expiry are checked; then
\* db.upsertUser(twitterId, address) is awaited.  Under MOCK_DB it touches no
\* I/O and the handler goes on to delete the nonce and answer in the same step.
VerifyCheck(r) ==
    LET v == verifies[r]
        k == <<v.twitterId, v.address>> IN
    /\ v.pc = "siwe"
    /\ IF ~v.signed
       THEN /\ verifies' = Respond(r, 401)
            /\ UNCHANGED <<users, nonceStore, call>>
       ELSE IF k \notin DOMAIN nonceStore \/ nonceStore[k].nonce # v.nonce
       THEN /\ verifies' = Respond(r, 401)
            /\ UNCHANGED <<users, nonceStore, call>>
       ELSE IF now > nonceStore[k].expiresAt
       THEN /\ verifies' = Respond(r, 401)
            /\ nonceStore' = Remove(nonceStore, k)
            /\ UNCHANGED <<users, call>>
       ELSE IF config.MOCK_DB
       THEN /\ DbUpsertUser(v.twitterId, v.address, NULL)
            /\ nonceStore' = Remove(nonceStore, k)
            /\ verifies' = Respond(r, 200)
       ELSE /\ verifies' = [verifies EXCEPT ![r] = [@ EXCEPT !.pc = "upsert"]]
            /\ UNCHANGED <<users, nonceStore, call>>
    /\ UNCHANGED <<config, parsed, chainVars, listener, deployments, trail, rate_limits, jobs, nJobs, clock, faults, exec,
                   nNonces, history>>

\* the Postgres upsert returns: the nonce is deleted and the link is answered
VerifyUpsert(r) ==
    LET v == verifies[r] IN
    /\ v.pc = "upsert"
    /\ DbUpsertUser(v.twitterId, v.address, NULL)
    /\ nonceStore' = Remove(nonceStore, <<v.twitterId, v.address>>)
    /\ verifies' = Respond(r, 200)
    /\ UNCHANGED <<config, parsed, chainVars, listener, deployments, trail, rate_limits, jobs, nJobs, clock, faults, exec,
                   nNonces, history>>

\* the Postgres upsert rejects: catch, 500 'Internal server error'
VerifyUpsertFails(r) ==
    /\ verifies[r].pc = "upsert"
    /\ faults > 0
    /\ faults' = faults - 1
    /\ verifies' = Respond(r, 500)
    /\ UNCHANGED <<config, parsed, chainVars, listener, tables, trail, jobs, nJobs, clock, call, exec, nonceStore, nNonces, history>>

\* the wallet store under the DM commands
InitLink == Init /\ ~config.MOCK_QUEUE /\ ~config.MOCK_CHAIN

NextLink ==
    \/ \E u \in Users, a \in LinkAddresses : handleDMLink(u, a)
    \/ \E u \in Users : handleStartCommand(u)

SpecLink == InitLink /\ [][NextLink]_vars

\* the wallet-link router: the test user asks for challenges, and /verify
\* requests come in for any identity, address and nonce
InitVerify == Init /\ ~config.MOCK_QUEUE /\ ~config.MOCK_CHAIN

NextVerify ==
    \/ \E a \in LinkAddresses : Challenge(TEST_USER, a)
    \/ \E r \in ReqIds, u \in Users, a \in LinkAddresses, n \in 0..MaxNonces, signed \in BOOLEAN :
          VerifyRequest(r, u, a, n, signed)
    \/ \E r \in ReqIds : VerifyCheck(r)
    \/ \E r \in ReqIds : VerifyUpsert(r)
    \/ \E r \in ReqIds : VerifyUpsertFails(r)
    \/ \E d \in {1, NONCE_TTL_MS} : Tick(d)

SpecVerify == InitVerify /\ [][NextVerify]_vars

\* -------------------------------------------------------------- CommandParser

\* A text is a sequence of characters (strings of length one).
UPPER ==
    <<"A", "B", "C", "D", "E", "F", "G", "H", "I", "J", "K", "L", "M",
      "N", "O", "P", "Q", "R", "S", "T", "U", "V", "W", "X", "Y", "Z">>
LOWER ==
    <<"a", "b", "c", "d", "e", "f", "g", "h", "i", "j", "k", "l", "m",
      "n", "o", "p", "q", "r", "s", "t", "u", "v", "w", "x", "y", "z">>
Letters == DOMAIN UPPER
Digits == {"0", "1", "2", "3", "4", "5", "6", "7", "8", "9"}

IsUpper(c) == \E i \in Letters : UPPER[i] = c
IsLower(c) == \E i \in Letters : LOWER[i] = c
lowerChar(c) == IF IsUpper(c) THEN LOWER[CHOOSE i \in Letters : UPPER[i] = c] ELSE c
upperChar(c) == IF IsLower(c) THEN UPPER[CHOOSE i \in Letters : LOWER[i] = c] ELSE c
\* String.prototype.toLowerCase / toUpperCase on a text
lower(s) == [i \in 1..Len(s) |-> lowerChar(s[i])]
upper(s) == [i \in 1..Len(s) |-> upperChar(s[i])]

\* the character classes of the regular expressions
IsSpace(c) == c \in {" ", "\n", "\t"}                            \* \s
NonSpace(c) == ~IsSpace(c)                                        \* \S
IsAlnum(c) == IsUpper(c) \/ IsLower(c) \/ c \in Digits            \* [A-Za-z0-9]
IsWord(c) == IsAlnum(c) \/ c = "_"                                \* \w
IsNameChar(c) == IsAlnum(c) \/ IsSpace(c) \/ c \in {"-", "_", "."} \* [A-Za-z0-9\s\-_.]
NotNewline(c) == c # "\n"                                         \* .

\* String.prototype.trim
trim(s) ==
    IF \A i \in 1..Len(s) : IsSpace(s[i])
    THEN <<>>
    ELSE LET first == CHOOSE i \in 1..Len(s) :
                          NonSpace(s[i]) /\ \A k \in 1..(i - 1) : IsSpace(s[k])
             last == CHOOSE i \in 1..Len(s) :
                          NonSpace(s[i]) /\ \A k \in (i + 1)..Len(s) : IsSpace(s[k])
         IN  SubSeq(s, first, last)

\* String.prototype.includes
includes(s, sub) ==
    \E i \in 1..(Len(s) - Len(sub) + 1) : SubSeq(s, i, i + Len(sub) - 1) = sub

\* the end of the longest run of characters of class P that starts at i: the
\* first index from i on that is past the text or holds a character outside P
InClass(class, c) ==
    CASE class = "\\s" -> IsSpace(c)
      [] class = "\\S" -> NonSpace(c)
      [] class = "\\w" -> IsWord(c)
      [] class = "." -> NotNewline(c)
RunEnd(s, i, class) ==
    CHOOSE j \in i..(Len(s) + 1) :
        /\ j = Len(s) + 1 \/ ~InClass(class, s[j])
        /\ \A k \in i..(j - 1) : InClass(class, s[k])

\* a literal of a pattern with the i flag, at index p
LiteralAt(s, p, word) ==
    /\ p + Len(word) - 1 <= Len(s)
    /\ lower(SubSeq(s, p, p + Len(word) - 1)) = word

NoMatch == [found |-> FALSE, g1 |-> <<>>, g2 |-> <<>>]
TICKER == <<"t", "i", "c", "k", "e", "r">>
NAME == <<"n", "a", "m", "e">>
DEPLOY == <<"d", "e", "p", "l", "o", "y">>

\* /ticker\s*:\s*(\S+)/i at index p
TickerAt(s, p) ==
    LET colon == RunEnd(s, p + Len(TICKER), "\\s")
        from == RunEnd(s, colon + 1, "\\s")
        to == RunEnd(s, from, "\\S")
    IN  IF /\ LiteralAt(s, p, TICKER)
           /\ colon <= Len(s) /\ s[colon] = ":"
           /\ to > from
        THEN [found |-> TRUE, g1 |-> SubSeq(s, from, to - 1), g2 |-> <<>>]
        ELSE NoMatch

\* the lazy group ([A-Za-z0-9\s\-_.]+?) from index g, followed by (?:\n|$)
LazyEnds(s, g) ==
    {e \in g..Len(s) :
        /\ \A k \in g..e : IsNameChar(s[k])
        /\ e = Len(s) \/ s[e + 1] = "\n"}
Least(S) == CHOOSE x \in S : \A y \in S : x <= y
Greatest(S) == CHOOSE x \in S : \A y \in S : x >= y

\* /name\s*:\s*([A-Za-z0-9\s\-_.]+?)(?:\n|$)/i at index p: the greedy \s* after
\* the colon gives characters back to the group while the group cannot match
NameAt(s, p) ==
    LET colon == RunEnd(s, p + Len(NAME), "\\s")
        upTo == RunEnd(s, colon + 1, "\\s")
        starts == {g \in (colon + 1)..upTo : LazyEnds(s, g) # {}}
    IN  IF /\ LiteralAt(s, p, NAME)
           /\ colon <= Len(s) /\ s[colon] = ":"
           /\ starts # {}
        THEN [found |-> TRUE,
              g1 |-> SubSeq(s, Greatest(starts), Least(LazyEnds(s, Greatest(starts)))),
              g2 |-> <<>>]
        ELSE NoMatch

\* /@\w+\s+deploy\s+(\S+)\s+(.+)/i at index p: the greedy \s+ before the last
\* group gives characters back while the group cannot match
SimpleAt(s, p) ==
    LET w == RunEnd(s, p + 1, "\\w")
        d == RunEnd(s, w, "\\s")
        afterDeploy == d + Len(DEPLOY)
        from == RunEnd(s, afterDeploy, "\\s")
        to == RunEnd(s, from, "\\S")
        upTo == RunEnd(s, to, "\\s")
        starts == {g \in (to + 1)..upTo : g <= Len(s) /\ NotNewline(s[g])}
    IN  IF /\ s[p] = "@"
           /\ w > p + 1
           /\ d > w
           /\ LiteralAt(s, d, DEPLOY)
           /\ from > afterDeploy
           /\ to > from
           /\ starts # {}
        THEN [found |-> TRUE,
              g1 |-> SubSeq(s, from, to - 1),
              g2 |-> SubSeq(s, Greatest(starts), RunEnd(s, Greatest(starts), ".") - 1)]
        ELSE NoMatch

\* String.prototype.match without the g flag: the match at the leftmost index
MatchAt(s, p, pattern) ==
    CASE pattern = "ticker" -> TickerAt(s, p)
      [] pattern = "name" -> NameAt(s, p)
      [] pattern = "simple" -> SimpleAt(s, p)
Leftmost(s, pattern) ==
    IF \E p \in 1..Len(s) : MatchAt(s, p, pattern).found
    THEN MatchAt(s, CHOOSE p \in 1..Len(s) :
                        /\ MatchAt(s, p, pattern).found
                        /\ \A q \in 1..(p - 1) : ~MatchAt(s, q, pattern).found,
                 pattern)
    ELSE NoMatch
tickerMatch(s) == Leftmost(s, "ticker")
nameMatch(s) == Leftmost(s, "name")
simpleMatch(s) == Leftmost(s, "simple")

\* new CommandParser(config.X_BOT_USERNAME): the name is kept in lower case
botUsername == lower(<<"M", "y", "B", "o", "t">>)

\* tickerSchema and nameSchema
tickerSchema(t) == Len(t) >= 1 /\ Len(t) <= TICKER_MAX /\ \A i \in 1..Len(t) : IsAlnum(t[i])
nameSchema(n) == Len(n) >= 1 /\ Len(n) <= NAME_MAX /\ \A i \in 1..Len(n) : IsNameChar(n[i])

\* the text passes the check for the bot mention and the deploy keyword
MutOnlyDeployKeyword(text) == includes(lower(trim(text)), DEPLOY)
HasTriggers(text) ==
    LET normalized == lower(trim(text))
    IN  includes(normalized, <<"@">> \o botUsername) /\ includes(normalized, DEPLOY)

\* parse after that check: the structured format first, then the simple one
Extract(text) ==
    LET structured == tickerMatch(text).found /\ nameMatch(text).found
        simple == simpleMatch(text)
        found == structured \/ simple.found
        ticker == IF structured THEN upper(trim(tickerMatch(text).g1))
                  ELSE upper(trim(simple.g1))
        name == IF structured THEN trim(nameMatch(text).g1) ELSE trim(simple.g2)
    IN  IF ~found \/ ticker = <<>> \/ name = <<>> THEN NoCommand
        ELSE IF ~tickerSchema(ticker) THEN NoCommand
        ELSE IF ~nameSchema(name) THEN NoCommand
        ELSE [isNull |-> FALSE, ticker |-> ticker, name |-> name]

parse(text) == IF ~HasTriggers(text) THEN NoCommand ELSE Extract(text)

\* the pieces the texts of the model are put together from
Pieces ==
    { <<>>,
      <<"@", "M", "y", "B", "o", "t", " ">>,
      <<"@", "m", "y", "b", "o", "t">>,
      <<"d", "e", "p", "l", "o", "y", "\n">>,
      <<"D", "E", "P", "L", "O", "Y", " ">>,
      <<"T", "i", "c", "k", "e", "r", ":", " ", "T", "E", "S", "T", "\n">>,
      <<"n", "a", "m", "e", ":", " ", "T", "o", "k">>,
      <<"T", "E", "S", "T", " ">>,
      <<"T", "o", "k">>,
      <<"d", "e", "p">>,
      <<"l", "o", "y", " ">>,
      <<"@", "o", "t", "h", "e", "r", " ">>,
      <<"t", "e", "$", "t", " ">>,
      <<"A", "\t", "b">>,
      <<" ", " ">> }

RECURSIVE Concat(_, _)
Concat(f, n) == IF n = 0 THEN <<>> ELSE Concat(f, n - 1) \o f[n]

\* the texts handed to the parser
Texts == {Concat(f, MaxPieces) : f \in [1..MaxPieces -> Pieces]}

\* one call of commandParser.parse(mention.text)
ParseCall ==
    /\ ~parsed.called
    /\ \E text \in Texts : parsed' = [called |-> TRUE, text |-> text, result |-> parse(text)]
    /\ UNCHANGED <<config, chainVars, listener, tables, trail, jobs, nJobs, clock, faults, direct, history>>

InitParser == Init /\ ~config.MOCK_QUEUE /\ ~config.MOCK_DB /\ ~config.MOCK_CHAIN
NextParser == ParseCall
SpecParser == InitParser /\ [][NextParser]_vars

\* ------------------------------------------------------------- the contracts

\* inputs of the calls: amounts in units of 0.0001 ether, cooldowns in seconds
Fees == {0, DEPLOY_FEE, MAX_DEPLOY_FEE, MAX_DEPLOY_FEE + 1, 2 * MAX_DEPLOY_FEE}
Values == {0, DEPLOY_FEE - 1, DEPLOY_FEE, MAX_DEPLOY_FEE}
CooldownInputs == {0, DEPLOYMENT_COOLDOWN, BLOCK_TIMESTAMP + 1}
TwitterIdHashes == {"keccak256(twitter_user_123)"}
Names == {"", "Test Token"}

\* a transaction that went through, or the error it reverted with
Sent(to, fn, sender, value) ==
    [NoTx EXCEPT !.n = tx.n + 1, !.to = to, !.fn = fn, !.sender = sender, !.value = value]
Reverted(t, error) == [t EXCEPT !.revert = error]

\* new TokenFactory() and new FeeForwarderHook(poolManager): owner = msg.sender
NewTokenFactory(sender) ==
    /\ tx.n < MaxTxs
    /\ tokenFactory.owner = ZERO
    /\ tokenFactory' = [owner |-> sender]
    /\ tx' = Sent(TOKEN_FACTORY, "constructor", sender, 0)
    /\ UNCHANGED <<offChain, feeHook, orchestrator, simpleToken>>

NewFeeForwarderHook(sender) ==
    /\ tx.n < MaxTxs
    /\ feeHook.owner = ZERO
    /\ feeHook' = [feeHook EXCEPT !.owner = sender]
    /\ tx' = Sent(FEE_HOOK, "constructor", sender, 0)
    /\ UNCHANGED <<offChain, tokenFactory, orchestrator, simpleToken>>

\* new DeploymentOrchestrator(poolManager, tokenFactory, feeHook, weth, _deployFee)
NewDeploymentOrchestrator(sender, _deployFee) ==
    /\ tx.n < MaxTxs
    /\ ~orchestrator.constructed
    /\ LET t == [Sent(ORCHESTRATOR, "constructor", sender, 0) EXCEPT !.amount = _deployFee] IN
       IF _deployFee > MAX_DEPLOY_FEE
       THEN /\ tx' = Reverted(t, "Fee too high")
            /\ UNCHANGED orchestrator
       ELSE /\ tx' = t
            /\ orchestrator' = [orchestrator EXCEPT !.constructed = TRUE, !.owner = sender,
                                                    !.deployFee = _deployFee]
    /\ UNCHANGED <<offChain, tokenFactory, feeHook, simpleToken>>

\* tokenFactory.deployToken(name, symbol, DEFAULT_SUPPLY, msg.sender) called by
\* the orchestrator: the error it reverts with, or NULL
deployTokenError(name, symbol, recipient) ==
    IF tokenFactory.owner = ZERO THEN "call to non-contract"
    ELSE IF ORCHESTRATOR # tokenFactory.owner THEN "TokenFactory: not owner"
    ELSE IF recipient = ZERO THEN "TokenFactory: zero recipient"
    ELSE IF name = "" THEN "TokenFactory: empty name"
    ELSE IF symbol = "" THEN "TokenFactory: empty symbol"
    ELSE NULL

\* feeHook.setFeeRecipient(key, feeRecipient) called by the orchestrator
setFeeRecipientError(recipient) ==
    IF feeHook.owner = ZERO THEN "call to non-contract"
    ELSE IF ORCHESTRATOR # feeHook.owner THEN "NotOwner"
    ELSE IF recipient = ZERO THEN "ZeroRecipient"
    ELSE NULL

\* a call by a non-owner reaches the body
MutNoOnlyOwner(sender) == FALSE
\* modifier onlyOwner
NotOwner(sender) == sender # orchestrator.owner

\* The errors deploy can revert with, NULL standing for success.  The calls
\* into the pool manager and the transfers of ether can fail.
deployErrors(sender, value, name, symbol, feeRecipient, twitterIdHash) ==
    IF NotOwner(sender) THEN {"NotOwner"}
    ELSE IF orchestrator.paused THEN {"Paused_"}
    ELSE IF feeRecipient = ZERO THEN {"ZeroRecipient"}
    ELSE IF value < orchestrator.deployFee THEN {"InsufficientFee"}
    ELSE IF BLOCK_TIMESTAMP <
              orchestrator.lastDeployTime[twitterIdHash] + orchestrator.deploymentCooldown
         THEN {"RateLimited"}
    ELSE IF deployTokenError(name, symbol, sender) # NULL
         THEN {deployTokenError(name, symbol, sender)}
    ELSE IF setFeeRecipientError(feeRecipient) # NULL
         THEN {setFeeRecipientError(feeRecipient)}
    ELSE {NULL, "initialize reverted", "TransferFailed"}

\* orchestrator.deploy{value}(name, symbol, feeRecipient, twitterIdHash): a
\* revert undoes every change, the value sent included
OrchestratorDeploy(sender, value, name, symbol, feeRecipient, twitterIdHash) ==
    /\ tx.n < MaxTxs
    /\ orchestrator.constructed
    /\ \E error \in deployErrors(sender, value, name, symbol, feeRecipient, twitterIdHash) :
          LET t == [Sent(ORCHESTRATOR, "deploy", sender, value) EXCEPT !.account = feeRecipient] IN
          IF error # NULL
          THEN /\ tx' = Reverted(t, error)
               /\ UNCHANGED <<orchestrator, feeHook>>
          ELSE /\ tx' = t
               /\ orchestrator' =
                     [orchestrator EXCEPT !.lastDeployTime[twitterIdHash] = BLOCK_TIMESTAMP]
               /\ feeHook' = [feeHook EXCEPT !.feeRecipients = @ \cup {feeRecipient}]
    /\ UNCHANGED <<offChain, tokenFactory, simpleToken>>

\* the fee is stored whatever its size
MutSetDeployFeeUnchecked(sender, _newFee) ==
    /\ tx.n < MaxTxs
    /\ orchestrator.constructed
    /\ ~NotOwner(sender)
    /\ tx' = [Sent(ORCHESTRATOR, "setDeployFee", sender, 0) EXCEPT !.amount = _newFee]
    /\ orchestrator' = [orchestrator EXCEPT !.deployFee = _newFee]
    /\ UNCHANGED <<offChain, tokenFactory, feeHook, simpleToken>>

SetDeployFee(sender, _newFee) ==
    /\ tx.n < MaxTxs
    /\ orchestrator.constructed
    /\ LET t == [Sent(ORCHESTRATOR, "setDeployFee", sender, 0) EXCEPT !.amount = _newFee] IN
       IF NotOwner(sender)
       THEN tx' = Reverted(t, "NotOwner") /\ UNCHANGED orchestrator
       ELSE IF _newFee > MAX_DEPLOY_FEE
       THEN tx' = Reverted(t, "DeployFeeTooHigh") /\ UNCHANGED orchestrator
       ELSE tx' = t /\ orchestrator' = [orchestrator EXCEPT !.deployFee = _newFee]
    /\ UNCHANGED <<offChain, tokenFactory, feeHook, simpleToken>>

SetDeploymentCooldown(sender, _cooldown) ==
    /\ tx.n < MaxTxs
    /\ orchestrator.constructed
    /\ LET t == [Sent(ORCHESTRATOR, "setDeploymentCooldown", sender, 0)
                 EXCEPT !.amount = _cooldown] IN
       IF NotOwner(sender)
       THEN tx' = Reverted(t, "NotOwner") /\ UNCHANGED orchestrator
       ELSE tx' = t /\ orchestrator' = [orchestrator EXCEPT !.deploymentCooldown = _cooldown]
    /\ UNCHANGED <<offChain, tokenFactory, feeHook, simpleToken>>

SetPaused(sender, _paused) ==
    /\ tx.n < MaxTxs
    /\ orchestrator.constructed
    /\ LET t == [Sent(ORCHESTRATOR, "setPaused", sender, 0) EXCEPT !.flag = _paused] IN
       IF NotOwner(sender)
       THEN tx' = Reverted(t, "NotOwner") /\ UNCHANGED orchestrator
       ELSE tx' = t /\ orchestrator' = [orchestrator EXCEPT !.paused = _paused]
    /\ UNCHANGED <<offChain, tokenFactory, feeHook, simpleToken>>

TransferOwnership(sender, _newOwner) ==
    /\ tx.n < MaxTxs
    /\ orchestrator.constructed
    /\ LET t == [Sent(ORCHESTRATOR, "transferOwnership", sender, 0)
                 EXCEPT !.account = _newOwner] IN
       IF NotOwner(sender)
       THEN tx' = Reverted(t, "NotOwner") /\ UNCHANGED orchestrator
       ELSE IF _newOwner = ZERO
       THEN tx' = Reverted(t, "Zero address") /\ UNCHANGED orchestrator
       ELSE tx' = t /\ orchestrator' = [orchestrator EXCEPT !.owner = _newOwner]
    /\ UNCHANGED <<offChain, tokenFactory, feeHook, simpleToken>>

\* owner.call{value: address(this).balance}(""): the owner may refuse the ether
EmergencyWithdraw(sender) ==
    /\ tx.n < MaxTxs
    /\ orchestrator.constructed
    /\ LET t == Sent(ORCHESTRATOR, "emergencyWithdraw", sender, 0) IN
       IF NotOwner(sender)
       THEN tx' = Reverted(t, "NotOwner") /\ UNCHANGED orchestrator
       ELSE \/ tx' = t /\ orchestrator' = [orchestrator EXCEPT !.balance = 0]
            \/ tx' = Reverted(t, "Transfer failed") /\ UNCHANGED orchestrator
    /\ UNCHANGED <<offChain, tokenFactory, feeHook, simpleToken>>

\* receive() external payable {}
Receive(sender, value) ==
    /\ tx.n < MaxTxs
    /\ orchestrator.constructed
    /\ value > 0
    /\ orchestrator.balance + value <= MaxBalance
    /\ tx' = Sent(ORCHESTRATOR, "receive", sender, value)
    /\ orchestrator' = [orchestrator EXCEPT !.balance = @ + value]
    /\ UNCHANGED <<offChain, tokenFactory, feeHook, simpleToken>>

InitOrchestrator ==
    Init /\ ~config.MOCK_QUEUE /\ ~config.MOCK_DB /\ ~config.MOCK_CHAIN

NextOrchestrator ==
    \/ \E sender \in EOAs : NewTokenFactory(sender)
    \/ \E sender \in EOAs : NewFeeForwarderHook(sender)
    \/ \E sender \in EOAs, fee \in Fees : NewDeploymentOrchestrator(sender, fee)
    \/ \E sender \in EOAs, value \in Values, name \in Names,
          feeRecipient \in {ZERO, NON_OWNER}, h \in TwitterIdHashes :
          OrchestratorDeploy(sender, value, name, "TEST", feeRecipient, h)
    \/ \E sender \in EOAs, fee \in Fees : SetDeployFee(sender, fee)
    \/ \E sender \in EOAs, c \in CooldownInputs : SetDeploymentCooldown(sender, c)
    \/ \E sender \in EOAs, p \in BOOLEAN : SetPaused(sender, p)
    \/ \E sender \in EOAs, a \in {ZERO, DEPLOYER, NON_OWNER} : TransferOwnership(sender, a)
    \/ \E sender \in EOAs : EmergencyWithdraw(sender)
    \/ \E sender \in EOAs : Receive(sender, DEPLOY_FEE)

SpecOrchestrator == InitOrchestrator /\ [][NextOrchestrator]_vars

\* -------------------------------------------------------------- SimpleToken

Amounts == Uint

\* unchecked { a - b } and unchecked { a + b } on uint
uncheckedSub(a, b) == (a - b + UINT_MAX + 1) % (UINT_MAX + 1)
uncheckedAdd(a, b) == (a + b) % (UINT_MAX + 1)

\* a transfer that does not look at the balance of `from`
MutTransferUnchecked(token, from, to, amount) ==
    IF from = ZERO THEN [error |-> "ERC20: transfer from zero address", token |-> token]
    ELSE IF to = ZERO THEN [error |-> "ERC20: transfer to zero address", token |-> token]
    ELSE LET debited == [token.balanceOf EXCEPT ![from] = uncheckedSub(@, amount)] IN
         [error |-> NULL,
          token |-> [token EXCEPT
                       !.balanceOf = [debited EXCEPT ![to] = uncheckedAdd(@, amount)]]]

\* _transfer(from, to, amount): the error it reverts with, or the token after it
internalTransfer(token, from, to, amount) ==
    IF from = ZERO THEN [error |-> "ERC20: transfer from zero address", token |-> token]
    ELSE IF to = ZERO THEN [error |-> "ERC20: transfer to zero address", token |-> token]
    ELSE IF ~(token.balanceOf[from] >= amount)
    THEN [error |-> "ERC20: insufficient balance", token |-> token]
    ELSE LET debited == [token.balanceOf EXCEPT ![from] = uncheckedSub(@, amount)] IN
         [error |-> NULL,
          token |-> [token EXCEPT
                       !.balanceOf = [debited EXCEPT ![to] = uncheckedAdd(@, amount)]]]

\* the transaction ends: reverted with every change undone, or gone through
Settle(t, r) ==
    /\ tx' = IF r.error # NULL THEN Reverted(t, r.error) ELSE t
    /\ simpleToken' = IF r.error # NULL THEN simpleToken ELSE r.token

\* new SimpleToken(_name, _symbol, _totalSupply, _recipient)
NewSimpleToken(sender, _totalSupply, _recipient) ==
    /\ tx.n < MaxTxs
    /\ ~simpleToken.constructed
    /\ simpleToken' = [simpleToken EXCEPT !.constructed = TRUE, !.totalSupply = _totalSupply,
                                          !.balanceOf[_recipient] = _totalSupply]
    /\ tx' = [Sent(SIMPLE_TOKEN, "constructor", sender, 0)
              EXCEPT !.amount = _totalSupply, !.account = _recipient]
    /\ UNCHANGED <<offChain, tokenFactory, feeHook, orchestrator>>

transfer(sender, to, amount) ==
    /\ tx.n < MaxTxs
    /\ simpleToken.constructed
    /\ Settle([Sent(SIMPLE_TOKEN, "transfer", sender, 0)
               EXCEPT !.from = sender, !.account = to, !.amount = amount],
              internalTransfer(simpleToken, sender, to, amount))
    /\ UNCHANGED <<offChain, tokenFactory, feeHook, orchestrator>>

approve(sender, spender, amount) ==
    /\ tx.n < MaxTxs
    /\ simpleToken.constructed
    /\ simpleToken' = [simpleToken EXCEPT !.allowance[sender][spender] = amount]
    /\ tx' = [Sent(SIMPLE_TOKEN, "approve", sender, 0)
              EXCEPT !.account = spender, !.amount = amount]
    /\ UNCHANGED <<offChain, tokenFactory, feeHook, orchestrator>>

transferFrom(sender, from, to, amount) ==
    /\ tx.n < MaxTxs
    /\ simpleToken.constructed
    /\ LET currentAllowance == simpleToken.allowance[from][sender]
           t == [Sent(SIMPLE_TOKEN, "transferFrom", sender, 0)
                 EXCEPT !.from = from, !.account = to, !.amount = amount]
           spent == [simpleToken EXCEPT
                       !.allowance[from][sender] = uncheckedSub(currentAllowance, amount)] IN
       IF currentAllowance # UINT_MAX
       THEN IF ~(currentAllowance >= amount)
            THEN Settle(t, [error |-> "ERC20: insufficient allowance", token |-> simpleToken])
            ELSE Settle(t, internalTransfer(spent, from, to, amount))
       ELSE Settle(t, internalTransfer(simpleToken, from, to, amount))
    /\ UNCHANGED <<offChain, tokenFactory, feeHook, orchestrator>>

InitToken == Init /\ ~config.MOCK_QUEUE /\ ~config.MOCK_DB /\ ~config.MOCK_CHAIN

NextToken ==
    \/ \E sender \in EOAs, supply \in Amounts, recipient \in Holders :
          NewSimpleToken(sender, supply, recipient)
    \/ \E sender \in EOAs, to \in Holders, amount \in Amounts : transfer(sender, to, amount)
    \/ \E sender \in EOAs, spender \in Holders, amount \in Amounts :
          approve(sender, spender, amount)
    \/ \E sender \in EOAs, from \in Holders, to \in Holders, amount \in Amounts :
          transferFrom(sender, from, to, amount)

SpecToken == InitToken /\ [][NextToken]_vars

\* ------------------------------ XListener: the polling loop and direct messages

\* Ids are compared as the strings they are (tweet.id <= this.lastSeenTweetId,
\* dm.id <= this.lastProcessedDmId); the ids of the model have one digit, so
\* the order of the strings is the order of the numbers.  Code between two
\* awaits runs without interruption: a step of the model is the code from one
\* await's return up to the next await.

\* getTweets: a page of the search '@bot deploy', in the order the platform
\* gives it; every mention of the page names the bot and holds a deploy command
Batches ==
    {b \in UNION {[1..n -> TweetIds] : n \in 0..MaxTweets} :
        \A i, j \in DOMAIN b : i # j => b[i] # b[j]}

\* The direct messages the platform holds, oldest first: each of the two
\* identities sends start, then a deploy command.
DmSender(d) == IF d % 2 = 1 THEN TEST_USER ELSE ORIGINAL_AUTHOR
SYMBOL == <<"s", "y", "m", "b", "o", "l">>
IMAGE == <<"i", "m", "a", "g", "e">>
URL == <<"h", "t", "t", "p", "s", ":", "/", "/", "x", ".", "p", "n", "g">>
\* the text of a message, split at the newlines and at the first colon of a line
DmLines(d) ==
    IF d <= 2 THEN << <<"s", "t", "a", "r", "t">> >>
    ELSE IF d = 3
    THEN << DEPLOY, <<NAME, <<" ", "M", "y", " ", "T", "o", "k", "e", "n">> >>,
            <<SYMBOL, <<" ", "M", "A", "T">> >>, <<IMAGE, <<" ">> \o URL>> >>
    ELSE << DEPLOY, <<upper(NAME), <<" ", "m", "y", "\t", "t", "o", "k", "e", "n">> >>,
            <<SYMBOL, <<" ", "m", "y", "-", "t", "o", "k", "e", "n", "-", "2", "0", "2", "6">> >>,
            <<IMAGE, <<" ">> \o URL>> >>

\* handleDM: text.toLowerCase() === 'start', text.toLowerCase().startsWith('deploy')
DmText(d) ==
    LET first == lower(trim(DmLines(d)[1]))
    IN  IF Len(DmLines(d)) = 1 /\ first = <<"s", "t", "a", "r", "t">> THEN "start"
        ELSE IF first = DEPLOY THEN "deploy"
        ELSE "unknown"

\* handleDeployCommand: params[key.trim().toLowerCase()] = parts.join(':').trim()
\* for every line 'key: value'; a later line replaces an earlier one
Param(d, key) ==
    LET hits == {k \in 2..Len(DmLines(d)) : lower(trim(DmLines(d)[k][1])) = key}
    IN  IF hits = {} THEN <<>>
        ELSE trim(DmLines(d)[CHOOSE k \in hits : \A h \in hits : h <= k][2])

\* if (!params.name || !params.symbol || !params.image)
MissingFields(d) == Param(d, NAME) = <<>> \/ Param(d, SYMBOL) = <<>> \/ Param(d, IMAGE) = <<>>

\* user?.private_key_encrypted
HasKey(u) == u \in DOMAIN users /\ users[u].private_key_encrypted # NULL

\* walletService.createWallet(): the n-th wallet ethers.Wallet.createRandom()
\* gives, its encrypted key, and the wallet getWallet builds from a stored key
createWallet(n) == "0x" \o ToString(1000 + n)
encrypt(address) == "encrypted key of " \o address
Wallets == {createWallet(n) : n \in 1..(MaxPolls * MaxDms)}
getWallet(key) == CHOOSE a \in Wallets : encrypt(a) = key
NextWallet == 1 + Len(generated[TEST_USER]) + Len(generated[ORIGINAL_AUTHOR])

\* loginRes.data.data: the access token the launch API gives a signer
TokenOf(signer) == "token of " \o signer

PollAt(p, pc) == [polls[p] EXCEPT !.pc = pc]

\* startTwitterApiIoPolling: the timer is set, then the initial poll is made
startTwitterApiIoPolling ==
    /\ polls[1].pc = "idle"
    /\ polls' = [polls EXCEPT ![1] = [NoPoll EXCEPT !.kind = "mentions", !.pc = "fetch",
                                                     !.seen = lastSeenTweetId]]
    /\ UNCHANGED <<config, parsed, chainVars, tables, trail, jobs, nJobs, clock, faults, direct,
                   history, marks, isOddPoll, accessToken, queueFaults, queued, dmHistory>>

\* setInterval(async () => { if (isOddPoll) await pollTwitterApiIo(); else
\* await pollDMs(); isOddPoll = !isOddPoll }, 12000): the timer fires whether or
\* not the callbacks before it have returned
PollTimer(p) ==
    /\ p > 1
    /\ polls[p].pc = "idle"
    /\ polls[p - 1].pc # "idle"
    /\ polls' = [polls EXCEPT ![p] =
                    [NoPoll EXCEPT !.kind = IF isOddPoll THEN "mentions" ELSE "dms",
                                   !.pc = "fetch", !.timer = TRUE,
                                   !.seen = IF isOddPoll THEN lastSeenTweetId
                                            ELSE lastProcessedDmId]]
    /\ UNCHANGED <<config, parsed, chainVars, tables, trail, jobs, nJobs, clock, faults, direct,
                   history, marks, isOddPoll, accessToken, queueFaults, queued, dmHistory>>

\* the poll returns to the timer's callback, which flips its flag
PollReturns(p, poll) ==
    /\ polls' = [polls EXCEPT ![p] = [poll EXCEPT !.pc = "done", !.wallet = NULL,
                                                   !.signer = NULL]]
    /\ isOddPoll' = IF poll.timer THEN ~isOddPoll ELSE isOddPoll

\* for (const tweet of tweets) from position i: a mention whose id is not above
\* the mark is skipped; the first other one is handed to handleTwitterApiIoTweet
MentionLoop(p, poll, i, mark) ==
    LET later == {k \in i..Len(poll.batch) : poll.batch[k] > mark}
    IN  IF later = {} THEN PollReturns(p, poll)
        ELSE /\ polls' = [polls EXCEPT ![p] = [poll EXCEPT !.pc = "handling", !.i = Least(later)]]
             /\ UNCHANGED isOddPoll

\* tweets = await getTweets(botUsername): the request rejects (the poll throws
\* and the flag is not flipped) or gives a page
pollTwitterApiIo(p, batch, ok) ==
    /\ polls[p].kind = "mentions"
    /\ polls[p].pc = "fetch"
    /\ IF ok
       THEN MentionLoop(p, [polls[p] EXCEPT !.batch = batch], 1, lastSeenTweetId)
       ELSE polls' = [polls EXCEPT ![p] = PollAt(p, "failed")] /\ UNCHANGED isOddPoll
    /\ UNCHANGED <<config, parsed, chainVars, tables, trail, jobs, nJobs, clock, faults, direct,
                   history, marks, accessToken, queueFaults, queued, dmHistory>>

\* await this.handleTwitterApiIoTweet(tweet); this.lastSeenTweetId = tweet.id:
\* the handler hands the mention to the queue, or logs the error of the
\* enqueue and returns
MentionHandled(p, ok) ==
    LET t == polls[p].batch[polls[p].i] IN
    /\ polls[p].kind = "mentions"
    /\ polls[p].pc = "handling"
    /\ IF ok
       THEN queued' = queued \cup {t} /\ UNCHANGED queueFaults
       ELSE queueFaults > 0 /\ queueFaults' = queueFaults - 1 /\ UNCHANGED queued
    /\ lastSeenTweetId' = t
    /\ MentionLoop(p, polls[p], polls[p].i + 1, t)
    /\ UNCHANGED <<config, parsed, chainVars, tables, trail, jobs, nJobs, clock, faults, direct,
                   history, lastProcessedDmId, accessToken, dmHistory>>

\* handleDM(dm) up to its first await
DmFirstAwait(d) ==
    IF DmText(d) = "start" THEN "startGetUser"
    ELSE IF DmText(d) = "deploy"
    THEN IF MissingFields(d) THEN "reply" ELSE "deployGetUser"
    ELSE "reply"

\* for (const dm of dms) from position i: a message whose id is not above the
\* mark is skipped; the first other one is handed to handleDM
DmLoop(p, poll, i, mark) ==
    LET later == {k \in i..Len(poll.batch) : poll.batch[k] > mark}
    IN  IF later = {} THEN PollReturns(p, poll)
        ELSE /\ polls' = [polls EXCEPT ![p] =
                            [poll EXCEPT !.pc = DmFirstAwait(poll.batch[Least(later)]),
                                         !.i = Least(later), !.wallet = NULL, !.signer = NULL]]
             /\ UNCHANGED isOddPoll

\* dms = await getDMs(); dms.sort(by created_at): the n messages the platform
\* holds, oldest first
pollDMs(p, n) ==
    /\ polls[p].kind = "dms"
    /\ polls[p].pc = "fetch"
    /\ DmLoop(p, [polls[p] EXCEPT !.batch = [d \in 1..n |-> d]], 1, lastProcessedDmId)
    /\ UNCHANGED <<config, parsed, chainVars, tables, trail, jobs, nJobs, clock, faults, direct,
                   history, marks, accessToken, queueFaults, queued, dmHistory>>

Dm(p) == polls[p].batch[polls[p].i]

\* handleStartCommand: user = await db.getUserByTwitterId(senderId) returns; a
\* sender with a key is told so, for another one a wallet is generated and
\* db.upsertUser is called
StartGetUser(p) ==
    LET u == DmSender(Dm(p))
        w == createWallet(NextWallet)
    IN  /\ polls[p].pc = "startGetUser"
        /\ IF HasKey(u)
           THEN polls' = [polls EXCEPT ![p] = PollAt(p, "reply")] /\ UNCHANGED generated
           ELSE /\ polls' = [polls EXCEPT ![p] = [PollAt(p, "upsert") EXCEPT !.wallet = w]]
                /\ generated' = [generated EXCEPT ![u] = Append(@, w)]
        /\ UNCHANGED <<config, parsed, chainVars, tables, trail, jobs, nJobs, clock, faults,
                       direct, history, marks, isOddPoll, accessToken, queueFaults, queued,
                       dmDeploys, requests, payloads>>

\* await db.upsertUser(senderId, address, encryptedKey) is carried out
StartUpsert(p) ==
    /\ polls[p].pc = "upsert"
    /\ users' = upsertUser(DmSender(Dm(p)), polls[p].wallet, encrypt(polls[p].wallet))
    /\ polls' = [polls EXCEPT ![p] = PollAt(p, "reply")]
    /\ UNCHANGED <<config, parsed, chainVars, deployments, rate_limits, trail, jobs, nJobs, clock,
                   faults, direct, history, marks, isOddPoll, accessToken, queueFaults, queued,
                   dmHistory>>

\* the last sendDM of the handler returns (sendDM does not throw), handleDM
\* returns and this.lastProcessedDmId = dm.id
DmReply(p) ==
    /\ polls[p].pc = "reply"
    /\ lastProcessedDmId' = Dm(p)
    /\ DmLoop(p, polls[p], polls[p].i + 1, Dm(p))
    /\ UNCHANGED <<config, parsed, chainVars, tables, trail, jobs, nJobs, clock, faults, direct,
                   history, lastSeenTweetId, accessToken, queueFaults, queued, dmHistory>>

\* handleDeployCommand: user = await db.getUserByTwitterId(senderId) returns; a
\* sender without a key is told to send start; otherwise the wallet is built
\* from the key and its balance is requested
DeployGetUser(p) ==
    LET u == DmSender(Dm(p)) IN
    /\ polls[p].pc = "deployGetUser"
    /\ polls' = [polls EXCEPT ![p] =
                    IF HasKey(u)
                    THEN [PollAt(p, "balance") EXCEPT
                             !.signer = getWallet(users[u].private_key_encrypted)]
                    ELSE PollAt(p, "reply")]
    /\ UNCHANGED <<config, parsed, chainVars, tables, trail, jobs, nJobs, clock, faults, direct,
                   history, marks, isOddPoll, accessToken, queueFaults, queued, dmHistory>>

\* the parameters handleDeployCommand passes to blockchainDeployer.deploy
DeployParams(d) == [name |-> Param(d, NAME), symbol |-> Param(d, SYMBOL)]

\* balance = await provider.getBalance(wallet.address) returns: below 0.015 the
\* sender is told so; otherwise, after the 'Deploying' message,
\* blockchainDeployer.deploy(params, wallet) is called, which under MOCK_CHAIN
\* returns the mock result and otherwise calls fourMemeService.login(signer)
DeployBalance(p, funded) ==
    /\ polls[p].pc = "balance"
    /\ IF funded
       THEN /\ dmDeploys' = [dmDeploys EXCEPT ![Dm(p)] = @ + 1]
            /\ requests' = requests \cup {DeployParams(Dm(p))}
            /\ polls' = [polls EXCEPT ![p] =
                            PollAt(p, IF config.MOCK_CHAIN THEN "reply" ELSE "login")]
       ELSE /\ polls' = [polls EXCEPT ![p] = PollAt(p, "reply")]
            /\ UNCHANGED <<dmDeploys, requests>>
    /\ UNCHANGED <<config, parsed, chainVars, tables, trail, jobs, nJobs, clock, faults, direct,
                   history, marks, isOddPoll, accessToken, queueFaults, queued, generated,
                   payloads>>

\* a login whose token is stored only after the payload request has been built
MutTokenStoredLate(p, ok) ==
    /\ polls[p].pc = "login"
    /\ IF ok
       THEN /\ accessToken' = TokenOf(polls[p].signer)
            /\ payloads' = payloads \cup {[signer |-> polls[p].signer, token |-> accessToken]}
            /\ polls' = [polls EXCEPT ![p] = PollAt(p, "payload")]
       ELSE /\ polls' = [polls EXCEPT ![p] = PollAt(p, "reply")]
            /\ UNCHANGED <<accessToken, payloads>>
    /\ UNCHANGED <<config, parsed, chainVars, tables, trail, jobs, nJobs, clock, faults, direct,
                   history, marks, isOddPoll, queueFaults, queued, dmDeploys, generated,
                   requests>>

\* 1. await fourMemeService.login(signer) returns: it threw (deploy returns the
\* failure), or it stored this.accessToken = loginRes.data.data and, with no
\* await in between, getTokenCreatePayload reads this.accessToken into the
\* 'meme-web-access' header of its request
DmLogin(p, ok) ==
    /\ polls[p].pc = "login"
    /\ IF ok
       THEN /\ accessToken' = TokenOf(polls[p].signer)
            /\ payloads' = payloads \cup {[signer |-> polls[p].signer, token |-> accessToken']}
            /\ polls' = [polls EXCEPT ![p] = PollAt(p, "payload")]
       ELSE /\ polls' = [polls EXCEPT ![p] = PollAt(p, "reply")]
            /\ UNCHANGED <<accessToken, payloads>>
    /\ UNCHANGED <<config, parsed, chainVars, tables, trail, jobs, nJobs, clock, faults, direct,
                   history, marks, isOddPoll, queueFaults, queued, dmDeploys, generated,
                   requests>>

\* an awaited step of deploy returns: it threw, or the run goes on
DmStep(p, from, to, ok) ==
    /\ polls[p].pc = from
    /\ polls' = [polls EXCEPT ![p] = PollAt(p, IF ok THEN to ELSE "reply")]
    /\ UNCHANGED <<config, parsed, chainVars, tables, trail, jobs, nJobs, clock, faults, direct,
                   history, marks, isOddPoll, accessToken, queueFaults, queued, dmHistory>>

\* 2. the payload request returns, 3. contract.createToken(...) is submitted,
\* 4. tx.wait() returns and deploy returns its result
DmPayload(p, ok) == DmStep(p, "payload", "createToken", ok)
DmCreateToken(p, ok) == DmStep(p, "createToken", "wait", ok)
DmWait(p, ok) == DmStep(p, "wait", "reply", ok)

\* the polling loop while the platform holds mentions and no direct message
InitMentions == Init /\ ~config.MOCK_DB /\ ~config.MOCK_CHAIN

NextMentions ==
    \/ startTwitterApiIoPolling
    \/ \E p \in PollIds : PollTimer(p)
    \/ \E p \in PollIds, batch \in Batches, ok \in BOOLEAN : pollTwitterApiIo(p, batch, ok)
    \/ \E p \in PollIds, ok \in BOOLEAN : MentionHandled(p, ok)
    \/ \E p \in PollIds : pollDMs(p, 0)

SpecMentions == InitMentions /\ [][NextMentions]_vars

\* the polling loop while the platform holds the direct messages and no
\* mention, next to a call of deploy by the queue worker, which passes no
\* signer; with Postgres every query of the Database is an awaited round trip
InitDm == Init /\ ~config.MOCK_QUEUE /\ ~config.MOCK_DB

NextDm ==
    \/ startTwitterApiIoPolling
    \/ \E p \in PollIds : PollTimer(p)
    \/ \E p \in PollIds : pollTwitterApiIo(p, <<>>, TRUE)
    \/ \E p \in PollIds : pollDMs(p, MaxDms)
    \/ \E p \in PollIds : StartGetUser(p)
    \/ \E p \in PollIds : StartUpsert(p)
    \/ \E p \in PollIds : DeployGetUser(p)
    \/ \E p \in PollIds, funded \in BOOLEAN : DeployBalance(p, funded)
    \/ \E p \in PollIds, ok \in BOOLEAN : DmLogin(p, ok)
    \/ \E p \in PollIds, ok \in BOOLEAN : DmPayload(p, ok)
    \/ \E p \in PollIds, ok \in BOOLEAN : DmCreateToken(p, ok)
    \/ \E p \in PollIds, ok \in BOOLEAN : DmWait(p, ok)
    \/ \E p \in PollIds : DmReply(p)
    \/ ExecCall(1, NULL)
    \/ ExecStore

SpecDm == InitDm /\ [][NextDm]_vars

\* ------------------------------------------------------------------- claims

Finished(j) == jobs[j].state \in {"completed", "failed"}
JobsOf(t) == {j \in JobIds : jobs[j].state # "none" /\ jobs[j].tweet = t}
Terminal == {"deployed", "failed", "wallet_missing"}
Edges == {<<"pending", "processing">>, <<"processing", "deployed">>,
          <<"processing", "failed">>, <<"pending", "wallet_missing">>}
\* the step is one of job j's run
StepOf(j) == jobs'[j] # jobs[j] /\ jobs[j].state = "active"

\* C1: over all duplicate deliveries, redeliveries and retries,
\* blockchainDeployer.deploy is called at most once per mention id.
C1_DeployAtMostOncePerMessage == \A t \in TweetIds : deployCalls[t] <= 1

\* a mention delivered twice, both jobs finished, one of them after a retry or
\* as a duplicate, and deploy was called for it
C1_Witness ==
    \E t \in TweetIds :
        /\ deployCalls[t] = 1
        /\ \E j1, j2 \in JobsOf(t) :
              /\ j1 # j2 /\ Finished(j1) /\ Finished(j2)
              /\ jobs[j1].ret \in {"deployed", "failed"}
              /\ jobs[j2].ret \in {"skipped", "threw"}

\* C3: a duplicate-key error of createDeployment inside processDeploymentJob is
\* a no-op skip: the step that handles it leaves the existing row as it is,
\* runs no on-chain step and sends no reply.
C3_DuplicateKeyIsNoOp ==
    [][\A j \in JobIds :
          (jobs[j].pc = "catch" /\ jobs[j].error = "duplicate key" /\ StepOf(j))
          => /\ deployments' = deployments
             /\ deployCalls' = deployCalls
             /\ jobs'[j].eff.replied = 0 /\ jobs'[j].eff.deployed = 0]_vars

\* C4: at most one run of processDeploymentJob is active at any moment.
C4_OneRunAtATime == Cardinality({j \in JobIds : jobs[j].state = "active"}) <= 1

\* C5: a status in {deployed, failed, wallet_missing} never changes again.
C5_TerminalStatusIsFinal ==
    [][\A t \in DOMAIN deployments :
          deployments[t].status \in Terminal
          => t \in DOMAIN deployments' /\ deployments'[t].status = deployments[t].status]_vars

\* C6: every status change of a row is one of the four edges of the lifecycle.
C6_OnlyLifecycleEdges ==
    [][\A t \in DOMAIN deployments :
          /\ t \in DOMAIN deployments'
          /\ deployments'[t].status # deployments[t].status
             => <<deployments[t].status, deployments'[t].status>> \in Edges]_vars

\* C7: once a run resolved no wallet for the fee recipient of a mention, deploy
\* is never called for that mention, and when all its jobs are finished its
\* Deployment has status wallet_missing.
C7_WalletMissingNeverDeploys ==
    \A t \in noWallet :
        /\ deployCalls[t] = 0
        /\ (\A j \in JobsOf(t) : Finished(j))
           => t \in DOMAIN deployments /\ deployments[t].status = "wallet_missing"

\* C8: a run that reaches the rate-limit gate after an attempt was recorded for
\* another mention of the same requester is rejected as rate_limited, with no
\* call of deploy, when less than RATE_LIMIT_COOLDOWN_MS passed since that
\* attempt, and passes the gate to createDeployment when that much or more passed.
C8_CooldownGate ==
    [][\A j \in JobIds :
          /\ (/\ jobs[j].pc = "rate" /\ StepOf(j) /\ jobs'[j].pc # "catch"
              /\ jobs[j].author \in DOMAIN lastAttempt
              /\ lastAttempt[jobs[j].author].tweet # jobs[j].tweet)
             => IF now - lastAttempt[jobs[j].author].at < RATE_LIMIT_COOLDOWN_MS
                THEN jobs'[j].pc = "rl_reply"
                ELSE jobs'[j].pc = "create"
          /\ (jobs[j].pc = "rl_reply" /\ StepOf(j))
             => /\ jobs'[j].ret = "rate_limited" /\ jobs'[j].state = "completed"
                /\ jobs'[j].eff.deployed = 0 /\ deployCalls' = deployCalls]_vars

\* two mentions of one requester: the second is rejected one millisecond before
\* the cooldown since the first one's attempt is over
C8_Witness ==
    \E j1, j2 \in JobIds :
        /\ jobs[j1].state = "active" /\ jobs[j1].pc = "rl_reply"
        /\ jobs[j2].state # "none" /\ jobs[j2].tweet # jobs[j1].tweet
        /\ jobs[j2].author = jobs[j1].author
        /\ jobs[j2].eff.recorded = 1
        /\ lastAttempt[jobs[j1].author].tweet = jobs[j2].tweet
        /\ now - lastAttempt[jobs[j1].author].at = RATE_LIMIT_COOLDOWN_MS - 1

\* C10: a run that ended rate_limited created no row, made no status update,
\* recorded no attempt, called deploy never and sent exactly one reply.
C10_RateLimitedHasNoEffect ==
    \A j \in JobIds :
        jobs[j].ret = "rate_limited"
        => jobs[j].eff = [NoEffects EXCEPT !.replied = 1]

C10_Witness ==
    \E j \in JobIds :
        /\ jobs[j].ret = "rate_limited"
        /\ jobs[j].tweet \notin DOMAIN deployments

\* C2: createDeployment for an id that already has a row fails with the
\* duplicate-key error and leaves the table, and so that row, as it was.
C2_CreateTwiceIsRejected ==
    [][\A t \in DOMAIN deployments :
          (call'.n = call.n + 1 /\ call'.op = "createDeployment" /\ call'.id = t)
          => call'.threw = "duplicate key" /\ deployments' = deployments]_vars

\* C9: checkRateLimit(identity, cooldown) is true exactly when no attempt was
\* recorded for the identity or the time since the last recorded attempt is at
\* least the cooldown, whatever the 24-hour counter holds.
C9_CheckRateLimit ==
    call.op = "checkRateLimit"
    => call.result = (\/ call.user \notin DOMAIN lastAttempt
                      \/ call.at - lastAttempt[call.user].at >= call.cooldownMs)

\* a check made exactly one cooldown after the second recorded attempt of the identity
C9_Witness ==
    /\ call.op = "checkRateLimit"
    /\ call.user \in DOMAIN lastAttempt
    /\ call.at - lastAttempt[call.user].at = call.cooldownMs
    /\ call.result
    /\ ~config.MOCK_DB
    /\ rate_limits[call.user].deploy_count_24h = 2

\* C11: once deploy has returned a failure result for a job, the next steps of
\* the run set the Deployment to failed with the result's error message stored,
\* and the run returns 'failed' (the job is completed, not thrown back to the
\* queue for a retry).
C11_BusinessFailureIsHandled ==
    [][\A j \in JobIds :
          /\ (jobs[j].pc = "fail_update" /\ StepOf(j))
             => /\ jobs'[j].pc = "fail_reply"
                /\ jobs[j].tweet \in DOMAIN deployments'
                /\ deployments'[jobs[j].tweet].status = "failed"
                /\ deployments'[jobs[j].tweet].error_message = jobs[j].result.error
          /\ (jobs[j].pc = "fail_reply" /\ StepOf(j))
             => jobs'[j].ret = "failed" /\ jobs'[j].state = "completed"]_vars

\* C12: when deploy was called with a signer and threw after createToken had
\* submitted the transaction, the Deployment stored from its result is failed
\* and its tx_hash is the hash of the submitted transaction.
C12_SubmittedHashIsKept ==
    (exec.pc = "stored" /\ exec.submitted # NULL /\ ~exec.result.success)
    => /\ deployments[exec.tweet].status = "failed"
       /\ deployments[exec.tweet].tx_hash = exec.submitted

\* C13: a Deployment in a terminal status has had at most one reply attempt
\* for its mention, and exactly one once every delivery of the mention is
\* finished, counted over all runs, retries and duplicate deliveries.
C13_OneReplyPerTerminal ==
    \A t \in DOMAIN deployments :
        deployments[t].status \in Terminal
        => /\ replies[t] <= 1
           /\ (\A j \in JobsOf(t) : Finished(j)) => replies[t] = 1

ReplySteps == {"wm_reply", "rl_reply", "fail_reply", "ok_reply"}

\* C14: a reply step whose post returned null ends the run with its normal
\* return (nothing is thrown, the job is completed) and leaves every
\* Deployment row, its status and result fields, as it was.
C14_ReplyFailureIsSwallowed ==
    [][\A j \in JobIds :
          (jobs[j].pc \in ReplySteps /\ StepOf(j) /\ jobs'[j].replyId = NULL)
          => /\ jobs'[j].state = "completed"
             /\ jobs'[j].ret \in {"wallet_missing", "rate_limited", "failed", "deployed"}
             /\ deployments' = deployments]_vars

\* a deployed mention whose success reply could not be posted
C14_Witness ==
    \E j \in JobIds :
        /\ jobs[j].state = "completed" /\ jobs[j].ret = "deployed"
        /\ jobs[j].eff.replied = 1 /\ jobs[j].replyId = NULL
        /\ jobs[j].tweet \in DOMAIN deployments
        /\ deployments[jobs[j].tweet].status = "deployed"
        /\ deployments[jobs[j].tweet].tx_hash = jobs[j].result.txHash
        /\ jobs[j].result.txHash # NULL

C16_LinkKeepsCustodialKey ==
    [][\A u \in DOMAIN users :
          (/\ call'.n = call.n + 1 /\ call'.op = "upsertUser"
           /\ call'.user = u /\ call'.key = NULL)
          => /\ users'[u].wallet_address = toLowerCase(call'.address)
             /\ users'[u].private_key_encrypted = users[u].private_key_encrypted]_vars

\* C17: every stored wallet address is lower-case, and an identity that has a
\* wallet record keeps one (the store holds one record per identity: it is
\* keyed by twitter_id).
C17_WalletStore ==
    /\ [](\A u \in DOMAIN users :
             users[u].wallet_address = toLowerCase(users[u].wallet_address))
    /\ [][\A u \in DOMAIN users :
             u \in DOMAIN users' /\ users'[u].wallet_address # NULL]_vars

\* C18: for every issued nonce at most one /verify request carrying it is
\* answered with success.
C18_NonceIsSingleUse ==
    \A n \in 1..MaxNonces :
        Cardinality({r \in ReqIds : verifies[r].status = 200 /\ verifies[r].nonce = n}) <= 1

\* the challenge a /verify request needs: stored for its identity and address,
\* with the nonce of its message, issued at most 5 minutes ago
ChallengeValid(v) ==
    LET k == <<v.twitterId, v.address>> IN
    /\ k \in DOMAIN nonceStore
    /\ nonceStore[k].nonce = v.nonce
    /\ now - nonceStore[k].issuedAt <= NONCE_TTL_MS

\* C19: a /verify request goes on to link only when its challenge is valid at
\* the check; a request answered with an error leaves the wallet store
\* unchanged; and the store changes only in a step that answers a request
\* with success, to the link of that request.
C19_VerifyNeedsValidChallenge ==
    [][/\ \A r \in ReqIds :
             /\ (verifies[r].pc = "siwe" /\ verifies'[r].pc = "upsert") => ChallengeValid(verifies[r])
             /\ (verifies[r].pc = "siwe" /\ verifies'[r].status = 200) => ChallengeValid(verifies[r])
             /\ (verifies[r].pc # "done" /\ verifies'[r].status \in {401, 500}) => users' = users
             /\ (verifies[r].pc # "done" /\ verifies'[r].status = 200)
                => users' = upsertUser(verifies[r].twitterId, verifies[r].address, NULL)
       /\ users' # users
             => \E r \in ReqIds : verifies[r].pc # "done" /\ verifies'[r].status = 200]_vars

\* one request linked its wallet and a signed one was refused
C19_Witness ==
    \E r1, r2 \in ReqIds :
        /\ verifies[r1].status = 200
        /\ verifies[r1].twitterId \in DOMAIN users
        /\ users[verifies[r1].twitterId].wallet_address = toLowerCase(verifies[r1].address)
        /\ verifies[r2].status = 401 /\ verifies[r2].signed
        /\ verifies[r2].nonce = verifies[r1].nonce

\* the text contains the token, whatever the case of its letters
ContainsToken(text, token) ==
    \E i \in 1..(Len(text) - Len(token) + 1) :
        \A k \in 1..Len(token) : lowerChar(text[i + k - 1]) = lowerChar(token[k])
BotMention == <<"@", "M", "y", "B", "o", "t">>
HasBothTokens(text) == ContainsToken(text, BotMention) /\ ContainsToken(text, DEPLOY)

\* C20: for every text that does not contain both the bot mention and the word
\* deploy (each in any case), CommandParser.parse returns null.
C20_NullWithoutBothTokens ==
    parsed.called /\ ~HasBothTokens(parsed.text) => parsed.result = NoCommand

\* parse returned null for a text that lacks one of the two tokens and that
\* holds a ticker and a name the rest of parse would have accepted
C20_Witness ==
    /\ parsed.called
    /\ ~HasBothTokens(parsed.text)
    /\ Extract(parsed.text) # NoCommand
    /\ parsed.result = NoCommand

\* the characters the specification allows in a name
IsPlainNameChar(c) == IsAlnum(c) \/ c \in {" ", "-", "_", "."}

\* C21: parse returns null or a command whose ticker is upper-case and matches
\* ^[A-Z0-9]{1,10}$ and whose name has 1 to 50 characters from alphanumerics,
\* space, hyphen, underscore and period.
C21_NullOrValidCommand ==
    parsed.called /\ parsed.result # NoCommand =>
        LET ticker == parsed.result.ticker
            name == parsed.result.name
        IN  /\ Len(ticker) \in 1..TICKER_MAX
            /\ \A i \in 1..Len(ticker) : IsUpper(ticker[i]) \/ ticker[i] \in Digits
            /\ Len(name) \in 1..NAME_MAX
            /\ \A i \in 1..Len(name) : IsPlainNameChar(name[i])

\* the step is a direct call of updateDeploymentStatus for id t
UpdateCalled(t) ==
    call'.n = call.n + 1 /\ call'.op = "updateDeploymentStatus" /\ call'.id = t

\* C22: updateDeploymentStatus for an id that has no Deployment row raises no
\* error, creates no row and changes no other row.
C22_UpdateOfMissingRowIsNoOp ==
    [][\A t \in TweetIds :
          UpdateCalled(t) /\ t \notin DOMAIN deployments
          => call'.threw = NULL /\ deployments' = deployments]_vars

\* an update was called for an id without a row while another id has a row that
\* holds more than its initial values
C22_Witness ==
    /\ call.op = "updateDeploymentStatus"
    /\ call.id \notin DOMAIN deployments
    /\ call.status = "deployed" /\ call.data.tokenAddress # NULL
    /\ \E o \in DOMAIN deployments : deployments[o].status = "failed"

\* the value of a field after an update that was given v for it
Written(v, old) == IF v # NULL THEN v ELSE old

\* C23: updateDeploymentStatus writes the new status and each supplied optional
\* field; a field that was not supplied, every other column and every other row
\* keep their values.
C23_PartialUpdate ==
    [][\A t \in DOMAIN deployments :
          UpdateCalled(t) =>
              LET old == deployments[t]
                  d == call'.data
              IN  /\ DOMAIN deployments' = DOMAIN deployments
                  /\ \A o \in DOMAIN deployments \ {t} : deployments'[o] = deployments[o]
                  /\ deployments'[t] =
                        [old EXCEPT !.status = call'.status,
                                    !.token_address = Written(d.tokenAddress, old.token_address),
                                    !.pool_id = Written(d.poolId, old.pool_id),
                                    !.tx_hash = Written(d.txHash, old.tx_hash),
                                    !.error_message = Written(d.errorMessage, old.error_message)]]_vars

\* the trail holds pending, later processing, and ends with deployed
PendingProcessingDeployed(tr) ==
    \E i, k \in 1..Len(tr) :
        /\ i < k /\ k < Len(tr)
        /\ tr[i] = "pending" /\ tr[k] = "processing" /\ tr[Len(tr)] = "deployed"

\* C24: a Deployment with status deployed has a token address, a pool id and a
\* transaction hash, and its row was pending and then processing before.
C24_DeployedIsComplete ==
    \A t \in DOMAIN deployments :
        deployments[t].status = "deployed" =>
            /\ deployments[t].token_address # NULL
            /\ deployments[t].pool_id # NULL
            /\ deployments[t].tx_hash # NULL
            /\ PendingProcessingDeployed(trail[t])

\* a row in Postgres was deployed by a run taken from the queue
C24_Witness ==
    \E j \in JobIds :
        /\ jobs[j].ret = "deployed"
        /\ ~config.MOCK_DB /\ ~config.MOCK_QUEUE
        /\ jobs[j].tweet \in DOMAIN deployments
        /\ deployments[jobs[j].tweet].status = "deployed"

\* C25: the job the listener hands on for a mention names as fee recipient the
\* author of the parent message when the mention is a reply and the requester
\* when it is a direct mention, on the polling path and on the stream path.
C25_FeeRecipientOfJob ==
    \A j \in JobIds :
        jobs[j].state # "none" =>
            jobs[j].parent = IF IsReply(jobs[j].tweet)
                             THEN ParentAuthor(jobs[j].tweet)
                             ELSE Author(jobs[j].tweet)

\* the transaction this step sent to the orchestrator, if it sent one
OrchestratorTx(fns) ==
    tx'.n # tx.n /\ tx'.to = ORCHESTRATOR /\ tx'.fn \in fns

\* C26: deployFee never exceeds MAX_DEPLOY_FEE: the constructor and
\* setDeployFee revert on a larger value and leave the contract as it was, and
\* the fee changes only in a constructor or setDeployFee that went through.
C26_DeployFeeWithinMax ==
    [][/\ orchestrator.deployFee <= MAX_DEPLOY_FEE
       /\ orchestrator'.deployFee <= MAX_DEPLOY_FEE
       /\ (OrchestratorTx({"constructor", "setDeployFee"}) /\ tx'.amount > MAX_DEPLOY_FEE)
             => (tx'.revert # NULL /\ orchestrator' = orchestrator)
       /\ orchestrator'.deployFee # orchestrator.deployFee
             => (OrchestratorTx({"constructor", "setDeployFee"}) /\ tx'.revert = NULL
                 /\ orchestrator'.deployFee = tx'.amount)]_vars

\* the owner asked for a fee above the maximum and the fee set before stayed
C26_Witness ==
    /\ tx.to = ORCHESTRATOR /\ tx.fn = "setDeployFee" /\ tx.sender = orchestrator.owner
    /\ tx.amount > MAX_DEPLOY_FEE /\ tx.revert = "DeployFeeTooHigh"
    /\ orchestrator.deployFee = DEPLOY_FEE

OnlyOwnerFunctions ==
    {"deploy", "setDeployFee", "setDeploymentCooldown", "setPaused", "transferOwnership",
     "emergencyWithdraw"}

\* C27: a call of an onlyOwner function of the orchestrator by an account
\* that is not the current owner reverts with NotOwner and leaves owner,
\* deployFee, paused, cooldown, lastDeployTime and balance as they were; the
\* owner of the constructed contract is never the zero address.
C27_OnlyOwner ==
    [][/\ (OrchestratorTx(OnlyOwnerFunctions) /\ tx'.sender # orchestrator.owner)
             => (tx'.revert = "NotOwner" /\ orchestrator' = orchestrator)
       /\ orchestrator'.constructed => orchestrator'.owner # ZERO]_vars

\* the former owner, after handing the contract over, is turned away while the
\* contract holds ether
C27_Witness ==
    /\ tx.to = ORCHESTRATOR /\ tx.fn = "emergencyWithdraw" /\ tx.revert = "NotOwner"
    /\ tx.sender = DEPLOYER /\ orchestrator.owner = NON_OWNER
    /\ orchestrator.balance > 0

RECURSIVE SumOver(_, _)
SumOver(f, S) ==
    IF S = {} THEN 0 ELSE LET a == CHOOSE x \in S : TRUE IN f[a] + SumOver(f, S \ {a})

\* this step is a call of transfer or transferFrom on the token
TransferTx == tx'.n # tx.n /\ tx'.to = SIMPLE_TOKEN /\ tx'.fn \in {"transfer", "transferFrom"}

\* exactly `amount` went from `from` to `to` and no other balance moved
Moved(from, to, amount) ==
    simpleToken'.balanceOf =
        IF from = to THEN simpleToken.balanceOf
        ELSE [simpleToken.balanceOf EXCEPT ![from] = @ - amount, ![to] = @ + amount]

\* C28: the balances of SimpleToken always add up to totalSupply; a transfer
\* that goes through moves exactly the amount from the sender to the
\* receiver; a transfer of more than the sender holds, or to the zero
\* address, reverts and leaves every balance as it was.
C28_TokenConservation ==
    [][/\ simpleToken'.constructed
             => SumOver(simpleToken'.balanceOf, Holders) = simpleToken'.totalSupply
       /\ (TransferTx /\ tx'.revert = NULL) => Moved(tx'.from, tx'.account, tx'.amount)
       /\ (TransferTx /\ (tx'.amount > simpleToken.balanceOf[tx'.from] \/ tx'.account = ZERO))
             => (tx'.revert # NULL /\ simpleToken' = simpleToken)]_vars

\* after a transfer that went through, a transfer of more than the sender
\* has left reverted
C28_Witness ==
    /\ tx.to = SIMPLE_TOKEN /\ tx.fn = "transfer" /\ tx.revert = "ERC20: insufficient balance"
    /\ simpleToken.balanceOf[tx.sender] > 0
    /\ simpleToken.balanceOf[tx.sender] < simpleToken.totalSupply
    /\ tx.amount > simpleToken.balanceOf[tx.sender]
    /\ SumOver(simpleToken.balanceOf, Holders) = simpleToken.totalSupply

\* C29: a run for a mention id that already has a Deployment row returns
\* skipped and changes nothing: it creates and updates no row, records no
\* attempt, calls no deploy and posts no reply.
C29_ExistingRowIsSkipped ==
    \A j \in JobIds :
        jobs[j].rowSeen =>
            /\ jobs[j].eff = NoEffects
            /\ jobs[j].pc = "idle" => (jobs[j].state = "completed" /\ jobs[j].ret = "skipped")

\* the awaits of a run of deploy, in the order of the code
ExecutorSteps == <<"login", "payload", "createToken", "wait">>
FirstSteps(n) == SubSeq(ExecutorSteps, 1, n)

\* the row of mention t was created and then set to processing
CreatedThenProcessing(tr, t) ==
    /\ t \in DOMAIN tr
    /\ Len(tr[t]) >= 2
    /\ SubSeq(tr[t], 1, 2) = <<"pending", "processing">>

ScriptConfiguration ==
    /\ orchestrator.constructed
    /\ orchestrator.owner \in EOAs
    /\ tokenFactory.owner = orchestrator.owner
    /\ feeHook.owner = orchestrator.owner

\* C37: in the configuration of the deployment script a deploy by the owner,
\* not paused, with msg.value >= deployFee, a non-zero fee recipient and no
\* earlier deploy for the twitterIdHash goes through, the fee recipient is
\* registered and lastDeployTime is set.
C37_ScriptDeploySucceeds ==
    [][(/\ OrchestratorTx({"deploy"})
        /\ ScriptConfiguration
        /\ tx'.sender = orchestrator.owner
        /\ ~orchestrator.paused
        /\ tx'.value >= orchestrator.deployFee
        /\ tx'.account # ZERO
        /\ orchestrator.deploymentCooldown <= BLOCK_TIMESTAMP
        /\ \A h \in TwitterIdHashes : orchestrator.lastDeployTime[h] = 0)
          => /\ tx'.revert = NULL
             /\ tx'.account \in feeHook'.feeRecipients
             /\ \A h \in TwitterIdHashes : orchestrator'.lastDeployTime[h] = BLOCK_TIMESTAMP]_vars

\* every job delivered for mention t has finished, and t has a row
AllFinished(t) ==
    /\ JobsOf(t) # {}
    /\ \A j \in JobsOf(t) : Finished(j)
    /\ t \in DOMAIN deployments
RowIsTerminal(t) == t \in DOMAIN deployments /\ deployments[t].status \in Terminal

\* C31: under fair scheduling, once the jobs of a mention have finished
\* (completed, or failed after the last retry) its Deployment row, if there is
\* one, is or becomes terminal: it is not left in pending or processing.
C31_FinishedRowIsTerminal ==
    \A t \in TweetIds : AllFinished(t) ~> RowIsTerminal(t)

\* C32: on the direct-message path each DM id leads to at most one call of
\* blockchainDeployer.deploy, also when two poll callbacks overlap and fetch
\* the same DM before lastProcessedDmId is advanced.
C32_OneDeployPerDm == \A d \in DmIds : dmDeploys[d] <= 1

\* C33: in every executor run the access token that getTokenCreatePayload
\* sends is the token the login of that run obtained for the run's signer,
\* for every interleaving of the runs that share the one FourMemeService.
C33_PayloadTokenOfSameRun == \A r \in payloads : r.token = TokenOf(r.signer)

\* two runs of different signers are between their payload request and its
\* answer, after a run of the queue worker: the shared field holds the token of
\* one of them only
C33_Witness ==
    \E p, q \in PollIds :
        /\ polls[p].pc = "payload" /\ polls[q].pc = "payload"
        /\ polls[p].signer # polls[q].signer
        /\ accessToken = TokenOf(polls[q].signer)
        /\ [signer |-> polls[p].signer, token |-> TokenOf(polls[p].signer)] \in payloads
        /\ exec.pc = "stored"

\* a poll of mentions that has returned handed every mention of its page whose
\* id was above the mark at the poll's start to the job queue
ReturnedPollsQueued ==
    \A p \in PollIds :
        polls[p].kind = "mentions" /\ polls[p].pc = "done" =>
            \A k \in DOMAIN polls[p].batch :
                polls[p].batch[k] > polls[p].seen => polls[p].batch[k] \in queued

\* C34: lastSeenTweetId never decreases, and every mention returned by a poll
\* that holds a valid deploy command and whose id is greater than the mark at
\* the start of that poll is handed to the job queue, whatever the order of the
\* mentions in the batch and also when an enqueue attempt fails.
C34_NoMentionLost ==
    /\ []ReturnedPollsQueued
    /\ [][lastSeenTweetId' >= lastSeenTweetId]_vars

\* C35: handling start direct messages never replaces a custodial key that is
\* already stored: for every sequence and interleaving of the start DMs of an
\* identity, a step leaves the wallet record of an identity that has an
\* encrypted key unchanged, so that at most one custodial wallet is ever
\* stored for it.
C35_StoredKeyNeverReplaced ==
    [][\A u \in Users : HasKey(u) => users'[u] = users[u]]_vars

\* the symbol and the name the specification allows in a deploy request
ValidRequest(r) ==
    /\ Len(r.symbol) \in 1..TICKER_MAX
    /\ \A i \in 1..Len(r.symbol) : IsUpper(r.symbol[i]) \/ r.symbol[i] \in Digits
    /\ Len(r.name) \in 1..NAME_MAX
    /\ \A i \in 1..Len(r.name) : IsPlainNameChar(r.name[i])

\* C36: every request that reaches blockchainDeployer.deploy, from the mention
\* pipeline or from the direct-message deploy command, has a symbol of 1 to 10
\* alphanumeric upper-case characters and a name of 1 to 50 characters from
\* alphanumerics, space, hyphen, underscore and period.
C36_DeployRequestsValid == \A r \in requests : ValidRequest(r)

====
